---- MODULE Spec2Model ----
(***************************************************************************)
(* The template manager of mailpen (manager.go): the source registry, the  *)
(* two base template sets, the resolved-document cache and rendering.      *)
(*                                                                         *)
(* A template body is a record [text, dyn, calls]: the literal text it     *)
(* prints, whether that text comes from the render data (so that it prints *)
(* nothing for nil data) and the templates it invokes with {{template}}.   *)
(* A file's content is [ok, body, defs, uses]: whether its syntax is well  *)
(* formed, its top-level body, its {{define}} blocks and the functions it  *)
(* calls. Every body a later file gives to a name *)
(* that an earlier file already defined is a non-empty template (for an    *)
(* empty one html/template keeps the earlier body).                        *)
(***************************************************************************)
EXTENDS Integers, Sequences, FiniteSets, TLC

VARIABLES sources, baseTemplates, emailCache, funcMap, processor, defaultLayout, last,
          mu, pc, loc

vars == <<sources, baseTemplates, emailCache, funcMap, processor, defaultLayout, last, mu, pc, loc>>

\* The lock and the callers of the interleaved specification.
callers == <<mu, pc, loc>>

\* ------------------------------------------------------------------ bounds

\* The registry holds at most this many sources, the built-in one included.
MaxSources == 3

\* The same, when nothing but AddSource is called.
MaxRegistry == 4

\* The number of concurrent callers of the interleaved specification.
NumProcs == 2

\* A theme path has at most this many characters.
MaxPathLen == 5

\* A file path below a role's directory has at most this many tokens.
MaxRelLen == 5

\* ------------------------------------------------- constants of manager.go

LayoutsDir == "layouts"
PartialsDir == "partials"
ComponentsDir == "components"
EmailsDir == "emails"

FormatText == "text"
FormatHTML == "html"
Formats == {FormatText, FormatHTML}

DefaultLayoutName == "base"

\* TemplateFormat.Extension
Extension(f) ==
  CASE f = FormatHTML -> ".html"
    [] f = FormatText -> ".txt"
    [] OTHER -> ""

\* A routing that takes every file that is no text template for HTML.
formatFromFileLoose(ext) == IF ext = ".txt" THEN FormatText ELSE FormatHTML

\* formatFromFile, on the file's extension (path.Ext of its name)
formatFromFile(ext) ==
  CASE ext = ".html" -> FormatHTML
    [] ext = ".txt" -> FormatText
    [] OTHER -> ""

\* Manager.templateName: the role tag, then the path below the role's
\* directory without its extension (a file is [dir, rel, ext, content]).
templateName(rootDir, file) ==
  CASE rootDir = LayoutsDir -> "layout:" \o file.rel
    [] rootDir = ComponentsDir -> "component:" \o file.rel
    [] rootDir = PartialsDir -> "partial:" \o file.rel
    [] OTHER -> file.rel

\* ------------------------------------------------------- the file trees

NoDefs == [n \in {} |-> 0]

T(text, dyn, calls) == [text |-> text, dyn |-> dyn, calls |-> calls]

Good(body, defs) == [ok |-> TRUE, body |-> body, defs |-> defs, uses |-> {}]

Malformed == [ok |-> FALSE, body |-> T("", FALSE, <<>>), defs |-> NoDefs, uses |-> {}]

\* A content that calls the functions funcs.
Using(funcs, content) == [content EXCEPT !.uses = funcs]

\* --------------------------------------------------- the function maps
\* A template.FuncMap maps a name to a function, kept as the function's
\* name; NoDefs stands for the empty and for the nil map.

\* mapFuncs
mapFuncs ==
  ("map_new" :> "newMap") @@ ("dict" :> "newMap") @@ ("add" :> "intAdd")
  @@ ("num_add" :> "intAdd") @@ ("num_mod" :> "mod") @@ ("sub" :> "intSub")
  @@ ("last" :> "indexLast")

\* MergeFuncMaps(maps...): the entries of every map, a later map's entry
\* replacing an earlier one's.
RECURSIVE MergeFuncMaps(_)
MergeFuncMaps(maps) ==
  IF maps = <<>> THEN NoDefs
  ELSE maps[Len(maps)] @@ MergeFuncMaps(SubSeq(maps, 1, Len(maps) - 1))

\* DefaultFuncMap
DefaultFuncMap == MergeFuncMaps(<<mapFuncs>>)

\* Manager.themeFuncs
themeFuncs == "theme" :> "themeFunc"

\* The function map NewManager builds: the default functions, the
\* manager's own map, which is still nil when it is merged (the literal
\* that builds the manager does not set it from config.FuncMap), and the
\* theme function.
managerFuncMap(config) == MergeFuncMaps(<<DefaultFuncMap, NoDefs, themeFuncs>>)

File(dir, rel, ext, content) ==
  [dir |-> dir, rel |-> rel, ext |-> ext, content |-> content]

\* A document: its {{define "layout"}} and {{define "content"}} blocks.
Doc(layout, content) ==
  Good(T("", FALSE, <<>>), ("layout" :> layout) @@ ("content" :> content))

\* templates.FS, the embedded built-in tree: components/alert.html, whose
\* top level holds comments only and which defines "@alert".
BuiltinFS ==
  << File(ComponentsDir, "alert", ".html",
          Good(T("", FALSE, <<>>), "@alert" :> T("<alert>", TRUE, <<>>))) >>

\* "base": two layouts, a component, a file that is no template, the document
\* welcome in both formats and the document notice as text only, whose
\* whole output comes from the data.
BaseFS ==
  << File(LayoutsDir, "base", ".html", Good(T("<base>", FALSE, <<"content">>), NoDefs)),
     File(LayoutsDir, "base", ".txt", Good(T("base:", FALSE, <<"content">>), NoDefs)),
     File(LayoutsDir, "marketing", ".html", Good(T("<mkt>", FALSE, <<"content">>), NoDefs)),
     File(LayoutsDir, "marketing", ".txt", Good(T("***", FALSE, <<"content">>), NoDefs)),
     File(LayoutsDir, "notes", ".md", Malformed),
     File(ComponentsDir, "footer", ".html", Good(T("<foot>", FALSE, <<>>), NoDefs)),
     File(EmailsDir, "notice", ".txt",
          Doc(T("notice", TRUE, <<>>), T("", FALSE, <<>>))),
     File(EmailsDir, "welcome", ".html",
          Doc(T("", FALSE, <<"layout:base">>), T("Hello", FALSE, <<"component:footer">>))),
     File(EmailsDir, "welcome", ".txt",
          Doc(T("", FALSE, <<"layout:base">>), T("Hello.", FALSE, <<>>))) >>

\* "override": redefines the HTML layout and footer and the HTML welcome,
\* adds a partial, and holds a notice.html that does not parse.
OverrideFS ==
  << File(LayoutsDir, "base", ".html", Good(T("<over>", FALSE, <<"content">>), NoDefs)),
     File(ComponentsDir, "footer", ".html", Good(T("<ofoot>", FALSE, <<>>), NoDefs)),
     File(PartialsDir, "sig", ".html", Good(T("<sig>", FALSE, <<>>), NoDefs)),
     File(EmailsDir, "notice", ".html", Malformed),
     File(EmailsDir, "welcome", ".html",
          Doc(T("", FALSE, <<"layout:base">>), T("Hi", FALSE, <<"component:footer">>))) >>

\* "extra": a third footer, the document promo as HTML only, which needs
\* the partial of "override", and the document digest, whose HTML needs
\* that partial and whose text needs the text layout of "base".
ExtraFS ==
  << File(ComponentsDir, "footer", ".html", Good(T("<xfoot>", FALSE, <<>>), NoDefs)),
     File(EmailsDir, "promo", ".html",
          Doc(T("<promo>", FALSE, <<"partial:sig">>), T("", FALSE, <<>>))),
     File(EmailsDir, "digest", ".html",
          Doc(T("<digest>", FALSE, <<"partial:sig">>), T("", FALSE, <<>>))),
     File(EmailsDir, "digest", ".txt",
          Doc(T("", FALSE, <<"layout:base">>), T("Digest", FALSE, <<>>))) >>

\* "stamped": the document stamp in both formats, which calls the custom
\* function fmtDate.
StampedFS ==
  << File(EmailsDir, "stamp", ".html",
          Using({"fmtDate"}, Doc(T("", FALSE, <<"layout:base">>), T("Sent", FALSE, <<>>)))),
     File(EmailsDir, "stamp", ".txt",
          Using({"fmtDate"}, Doc(T("", FALSE, <<"layout:base">>), T("Sent.", FALSE, <<>>)))) >>

\* "broken": a good layout followed by a component that does not parse.
BrokenFS ==
  << File(LayoutsDir, "base", ".html", Good(T("<bad>", FALSE, <<"content">>), NoDefs)),
     File(ComponentsDir, "footer", ".html", Malformed) >>

\* TemplateSource{Name, FS}; FS lists the files in fs.WalkDir's order.
TemplateSource(name, files) == [Name |-> name, FS |-> files]

BuiltinSource == TemplateSource("built-in", BuiltinFS)

SourcePool ==
  { TemplateSource("base", BaseFS),
    TemplateSource("override", OverrideFS),
    TemplateSource("extra", ExtraFS),
    TemplateSource("broken", BrokenFS) }

\* The calls of RenderEmail: <<name, data, layout>>. The data is a full
\* map or nil; "ghost" is a document no source holds.
RenderArgs ==
  { <<"welcome", "full", "">>, <<"welcome", "full", "marketing">>,
    <<"notice", "full", "">>, <<"notice", "nil", "">>,
    <<"promo", "full", "">>, <<"digest", "full", "">>, <<"ghost", "full", "">> }
FuncArgs == {<<"fmtDate", "fn1">>}
ProcessorKinds == {"pass", "fail"}

\* ------------------------------------------------------- template sets

EmptyTmpl == [n \in {} |-> 0]

\* template.New(name).Funcs(m.funcMap): a fresh set bound to the functions
\* the map holds at this moment.
NewTemplateSet(name, funcs) == [name |-> name, funcs |-> funcs, tmpl |-> EmptyTmpl]

\* Whether set.New(name).Parse(content) succeeds: the syntax is well formed
\* and every function the content calls is bound to the set ("function
\* not defined" is a parse error).
Parses(set, content) == content.ok /\ content.uses \subseteq DOMAIN set.funcs

\* A Parse that keeps the body a name already has (first definition wins).
ParseTemplateKeepFirst(set, name, content) ==
  [set EXCEPT !.tmpl = @ @@ content.defs @@ (name :> content.body)]

\* set.New(name).Parse(content) for a content that parses: name gets the
\* top-level body, every {{define}} block its body, replacing what was there.
ParseTemplate(set, name, content) ==
  [set EXCEPT !.tmpl = content.defs @@ (name :> content.body) @@ @]

\* The files fs.WalkDir(source.FS, rootDir) visits, in its order; none when
\* the directory is missing.
WalkDir(source, rootDir) == SelectSeq(source.FS, LAMBDA f : f.dir = rootDir)

\* Manager.loadDirectory over the files still to visit: st is
\* [base, err]; a file that is no template is skipped, a parse error ends
\* the walk with the sets as they are by then.
RECURSIVE loadFiles(_, _, _)
loadFiles(st, rootDir, files) ==
  IF files = <<>> \/ st.err # "none" THEN st
  ELSE LET f == Head(files)
           format == formatFromFile(f.ext)
       IN IF format = "" THEN loadFiles(st, rootDir, Tail(files))
          ELSE IF ~Parses(st.base[format], f.content) THEN [st EXCEPT !.err = "parse"]
          ELSE loadFiles(
                 [st EXCEPT !.base[format] =
                    ParseTemplate(@, templateName(rootDir, f), f.content)],
                 rootDir, Tail(files))

\* Whether the source has the directory; fs.WalkDir reports
\* fs.ErrNotExist for the root when it has not.
HasDir(source, rootDir) == \E i \in 1..Len(source.FS) : source.FS[i].dir = rootDir

\* A walk for which a missing directory is an error.
loadDirectoryStrict(st, source, rootDir) ==
  IF st.err = "none" /\ ~HasDir(source, rootDir) THEN [st EXCEPT !.err = "walk"]
  ELSE loadFiles(st, rootDir, WalkDir(source, rootDir))

\* Manager.loadDirectory: a directory the source lacks is skipped.
loadDirectory(st, source, rootDir) ==
  IF ~HasDir(source, rootDir) THEN st
  ELSE loadFiles(st, rootDir, WalkDir(source, rootDir))

\* A loop body that walks the components before the layouts.
loadSourceComponentsFirst(st, source) ==
  loadDirectory(loadDirectory(loadDirectory(st, source, ComponentsDir),
                              source, LayoutsDir),
                source, PartialsDir)

\* The body of loadBaseTemplates' loop for one source: layouts, then
\* components, then partials, stopping at the first error.
loadSource(st, source) ==
  loadDirectory(loadDirectory(loadDirectory(st, source, LayoutsDir),
                              source, ComponentsDir),
                source, PartialsDir)

RECURSIVE loadSources(_, _)
loadSources(st, srcs) ==
  IF srcs = <<>> \/ st.err # "none" THEN st
  ELSE loadSources(loadSource(st, Head(srcs)), Tail(srcs))

\* Manager.loadBaseTemplates: both sets are reset, then every source of
\* the registry is loaded in order. Returns [base, err].
loadBaseTemplates(srcs, funcs) ==
  loadSources(
    [base |-> (FormatText :> NewTemplateSet("text-base", funcs))
              @@ (FormatHTML :> NewTemplateSet("html-base", funcs)),
     err |-> "none"],
    srcs)

\* ------------------------------------------------- resolving a document

\* The cache key of getEmailTemplate: fmt.Sprintf("%s:%s:%s", ...).
cacheKey(format, name, layout) == format \o ":" \o name \o ":" \o layout

\* fs.ReadFile(source.FS, path.Join(EmailsDir, name+ext)): the files of
\* that path (one or none).
ReadEmailFile(source, name, format) ==
  SelectSeq(source.FS,
            LAMBDA f : f.dir = EmailsDir /\ f.rel = name /\ f.ext = Extension(format))

\* A search that starts at the first source added (first holder wins).
RECURSIVE findEmailOldestFirst(_, _, _, _, _)
findEmailOldestFirst(r, srcs, i, name, format) ==
  IF i = 0 THEN r
  ELSE LET k == Len(srcs) + 1 - i
           found == ReadEmailFile(srcs[k], name, format)
           rd == [r EXCEPT !.reads = Append(@, <<format, k>>)]
       IN IF found = <<>> THEN findEmailOldestFirst(rd, srcs, i - 1, name, format)
          ELSE IF ~Parses(r.tmpl, found[1].content) THEN [rd EXCEPT !.err = "parse"]
          ELSE [rd EXCEPT !.err = "none",
                          !.tmpl = ParseTemplate(@, name, found[1].content)]

\* The search loop of getEmailTemplate from source i down to the first:
\* the first source that holds the file decides. r is [tmpl, err, reads],
\* tmpl being the clone of the base set; err stays "notfound" when no
\* source holds the file.
RECURSIVE findEmail(_, _, _, _, _)
findEmail(r, srcs, i, name, format) ==
  IF i = 0 THEN r
  ELSE LET found == ReadEmailFile(srcs[i], name, format)
           rd == [r EXCEPT !.reads = Append(@, <<format, i>>)]
       IN IF found = <<>> THEN findEmail(rd, srcs, i - 1, name, format)
          ELSE IF ~Parses(r.tmpl, found[1].content) THEN [rd EXCEPT !.err = "parse"]
          ELSE [rd EXCEPT !.err = "none",
                          !.tmpl = ParseTemplate(@, name, found[1].content)]

\* A resolve that never looks into the cache.
getEmailTemplateNoCache(cache, base, srcs, name, layout, format) ==
  LET key == cacheKey(format, name, layout)
      r == findEmail([tmpl |-> base[format], err |-> "notfound", reads |-> <<>>],
                     srcs, Len(srcs), name, format)
  IN [tmpl |-> r.tmpl, err |-> r.err, reads |-> r.reads,
      cache |-> IF r.err = "none" THEN (key :> r.tmpl) @@ cache ELSE cache]

\* A getEmailTemplate that stores what it has under the key whether or not
\* the document was found and parsed.
getEmailTemplateCacheFailure(cache, base, srcs, name, layout, format) ==
  LET key == cacheKey(format, name, layout)
  IN IF key \in DOMAIN cache
     THEN [tmpl |-> cache[key], err |-> "none", cache |-> cache, reads |-> <<>>]
     ELSE LET r == findEmail([tmpl |-> base[format], err |-> "notfound", reads |-> <<>>],
                             srcs, Len(srcs), name, format)
          IN [tmpl |-> r.tmpl, err |-> r.err, reads |-> r.reads,
              cache |-> (key :> r.tmpl) @@ cache]

\* Manager.getEmailTemplate: the cached document when there is one, else
\* a clone of the format's base set with the document parsed in, stored
\* under the key. Returns [tmpl, err, cache, reads].
getEmailTemplate(cache, base, srcs, name, layout, format) ==
  LET key == cacheKey(format, name, layout)
  IN IF key \in DOMAIN cache
     THEN [tmpl |-> cache[key], err |-> "none", cache |-> cache, reads |-> <<>>]
     ELSE LET r == findEmail([tmpl |-> base[format], err |-> "notfound", reads |-> <<>>],
                             srcs, Len(srcs), name, format)
          IN [tmpl |-> r.tmpl, err |-> r.err, reads |-> r.reads,
              cache |-> IF r.err = "none" THEN (key :> r.tmpl) @@ cache ELSE cache]

\* ------------------------------------------------------------ executing

\* Whether name and every template it invokes, directly or not, is
\* defined in the set (html/template refuses to execute otherwise).
RECURSIVE canExecute(_, _)
canExecute(t, name) ==
  /\ name \in DOMAIN t.tmpl
  /\ \A i \in 1..Len(t.tmpl[name].calls) : canExecute(t, t.tmpl[name].calls[i])

RECURSIVE output(_, _, _)
RECURSIVE outputs(_, _, _)
outputs(t, names, data) ==
  IF names = <<>> THEN "" ELSE output(t, Head(names), data) \o outputs(t, Tail(names), data)

\* What executing name prints: its text (nothing for a text that comes
\* from nil data), then what the templates it invokes print.
output(t, name, data) ==
  LET b == t.tmpl[name]
  IN (IF b.dyn /\ data = "nil" THEN "" ELSE b.text) \o outputs(t, b.calls, data)

\* Manager.executeTemplate: [out, err].
executeTemplate(t, name, data) ==
  IF canExecute(t, name) THEN [out |-> output(t, name, data), err |-> "none"]
  ELSE [out |-> "", err |-> "execute"]

\* HTMLProcessor.Process of the configured processor: [out, err].
Process(kind, html) ==
  IF kind = "fail" THEN [out |-> "", err |-> "process"]
  ELSE [out |-> html, err |-> "none"]

\* The error value behind each error a call returns, as the chain of
\* dynamic types errors.As walks: fmt.Errorf with %w gives a *fmt.wrapError
\* around its cause, without %w an *errors.errorString; the causes are the
\* errors of html/template and of the processor. A rebuild wraps twice
\* (loadDirectory, then loadBaseTemplates). No statement of manager.go
\* builds a *templates.TemplateError.
errorChain(err) ==
  CASE err = "none" -> <<>>
    [] err = "parse" -> <<"*fmt.wrapError", "*fmt.wrapError", "html/template">>
    [] err = "failed to render text template" -> <<"*fmt.wrapError", "html/template">>
    [] err = "failed to render HTML template" -> <<"*fmt.wrapError", "html/template">>
    [] err = "failed to process HTML" -> <<"*fmt.wrapError", "HTMLProcessor">>
    [] err = "no templates found" -> <<"*errors.errorString">>

\* ------------------------------------------------------------- actions

\* The record of the last call: its arguments, the error it returned, the
\* bodies it rendered, the <<format, source index>> of each fs.ReadFile of
\* a document, the calls of the processor with what each was given, the
\* cache entries it dropped and the functions it was given.
NoCall == [op |-> "none", arg |-> "", layout |-> "", data |-> "", err |-> "none",
           text |-> "", html |-> "", reads |-> <<>>, processed |-> 0, given |-> <<>>,
           evicted |-> 0, funcs |-> NoDefs]

\* An AddSource that leaves the cache as it is.
AddSourceKeepCache(source) ==
  /\ Len(sources) < MaxSources
  /\ LET srcs == Append(sources, source)
         r == loadBaseTemplates(srcs, funcMap)
     IN /\ sources' = srcs
        /\ baseTemplates' = r.base
        /\ last' = [NoCall EXCEPT !.op = "AddSource", !.arg = source.Name, !.err = r.err]
  /\ UNCHANGED <<emailCache, funcMap, processor, defaultLayout, callers>>

\* An AddSource that puts the new source in front of the registry.
AddSourceWithinFront(source, bound) ==
  /\ Len(sources) < bound
  /\ LET srcs == <<source>> \o sources
         r == loadBaseTemplates(srcs, funcMap)
     IN /\ sources' = srcs
        /\ emailCache' = EmptyTmpl
        /\ baseTemplates' = r.base
        /\ last' = [NoCall EXCEPT !.op = "AddSource", !.arg = source.Name, !.err = r.err,
                                  !.evicted = Cardinality(DOMAIN emailCache)]
  /\ UNCHANGED <<funcMap, processor, defaultLayout, callers>>

\* Manager.AddSource: append, clear the cache, rebuild the base sets. The
\* registry is kept within bound sources.
AddSourceWithin(source, bound) ==
  /\ Len(sources) < bound
  /\ LET srcs == Append(sources, source)
         r == loadBaseTemplates(srcs, funcMap)
     IN /\ sources' = srcs
        /\ emailCache' = EmptyTmpl
        /\ baseTemplates' = r.base
        /\ last' = [NoCall EXCEPT !.op = "AddSource", !.arg = source.Name, !.err = r.err,
                                  !.evicted = Cardinality(DOMAIN emailCache)]
  /\ UNCHANGED <<funcMap, processor, defaultLayout, callers>>

AddSource(source) == AddSourceWithin(source, MaxSources)

Procs == 1..NumProcs

\* sync.RWMutex: the caller holding the write lock (0: none) and the
\* callers holding the read lock.
Unlocked == [writer |-> 0, readers |-> {}]

\* A caller outside every call.
Idle == [name |-> "", data |-> "", layout |-> "", format |-> "", fn |-> "",
         source |-> TemplateSource("", <<>>), tmpl |-> NewTemplateSet("", NoDefs),
         text |-> "", html |-> "", err |-> "none"]

\* ManagerConfig{Sources, DefaultLayout}, with no FuncMap
ManagerConfig(configSources, configLayout) ==
  [Sources |-> configSources, DefaultLayout |-> configLayout, FuncMap |-> NoDefs]

\* ManagerConfig{..., FuncMap}
WithFuncMap(config, funcs) == [config EXCEPT !.FuncMap = funcs]

\* NewManager(config): an empty config.DefaultLayout becomes "base"; the
\* built-in source, then config.Sources, each through AddSource, the last
\* rebuild deciding the base sets (a source that fails to load makes
\* NewManager fail). Config.Processor is any HTMLProcessor. The record of
\* the last call keeps the layout and the functions the configuration gave.
NewManager(config) ==
  /\ funcMap = managerFuncMap(config)
  /\ processor \in ProcessorKinds
  /\ defaultLayout =
       (IF config.DefaultLayout = "" THEN DefaultLayoutName ELSE config.DefaultLayout)
  /\ sources = <<BuiltinSource>> \o config.Sources
  /\ emailCache = EmptyTmpl
  /\ baseTemplates =
       loadBaseTemplates(<<BuiltinSource>> \o config.Sources, managerFuncMap(config)).base
  /\ last = [NoCall EXCEPT !.op = "NewManager", !.layout = config.DefaultLayout,
                           !.funcs = config.FuncMap]
  /\ mu = Unlocked
  /\ pc = [p \in Procs |-> "idle"]
  /\ loc = [p \in Procs |-> Idle]

Init == NewManager(ManagerConfig(<<>>, ""))

\* A render in which a format that does not resolve fails the call.
renderFormatStrict(g, data) ==
  IF g.err = "none" THEN executeTemplate(g.tmpl, "layout", data)
  ELSE [out |-> "", err |-> g.err]

\* A render that passes over a format that fails to execute.
renderFormatLenient(g, data) ==
  IF g.err = "none" /\ canExecute(g.tmpl, "layout")
  THEN executeTemplate(g.tmpl, "layout", data)
  ELSE [out |-> "", err |-> "none"]

\* One format of RenderEmail: the resolved document g is executed at its
\* entry "layout"; a format that did not resolve is passed over with an
\* empty body and no error.
renderFormat(g, data) ==
  IF g.err = "none" THEN executeTemplate(g.tmpl, "layout", data)
  ELSE [out |-> "", err |-> "none"]

\* A render that hands the processor whatever the HTML step left, resolved
\* or not.
processHTMLAlways(proc, g, x) ==
  LET r == Process(proc, x.out)
  IN [out |-> r.out, err |-> r.err, given |-> <<x.out>>]

\* The processing step of RenderEmail: when the HTML document resolved and
\* executed and a processor is set, it is handed the HTML output; given
\* lists what the processor was called with.
processHTML(proc, g, x) ==
  IF g.err = "none" /\ x.err = "none" /\ proc # "nil"
  THEN LET r == Process(proc, x.out)
       IN [out |-> r.out, err |-> r.err, given |-> <<x.out>>]
  ELSE [out |-> x.out, err |-> "none", given |-> <<>>]

\* A render that takes the layout argument as it is given.
effectiveLayoutAsGiven(layoutArg, dflt) == layoutArg

\* The head of RenderEmail: an empty layout argument stands for the
\* manager's default layout.
effectiveLayout(layoutArg, dflt) == IF layoutArg = "" THEN dflt ELSE layoutArg

\* Manager.RenderEmail as a function of the manager's state: the call's
\* record (error, bodies, files read, processor calls) and the cache it
\* leaves.
renderEmail(cache, base, srcs, proc, dflt, name, data, layoutArg) ==
  LET layout == effectiveLayout(layoutArg, dflt)
      call == [NoCall EXCEPT !.op = "RenderEmail", !.arg = name,
                             !.layout = layoutArg, !.data = data]
      gt == getEmailTemplate(cache, base, srcs, name, layout, FormatText)
      xt == renderFormat(gt, data)
      gh == getEmailTemplate(gt.cache, base, srcs, name, layout, FormatHTML)
      xh == renderFormat(gh, data)
      ph == processHTML(proc, gh, xh)
  IN IF xt.err # "none"
     THEN [call |-> [call EXCEPT !.err = "failed to render text template",
                                 !.reads = gt.reads],
           cache |-> gt.cache]
     ELSE LET read == [call EXCEPT !.reads = gt.reads \o gh.reads]
              seen == [read EXCEPT !.processed = Len(ph.given), !.given = ph.given]
          IN IF xh.err # "none"
             THEN [call |-> [read EXCEPT !.err = "failed to render HTML template"],
                   cache |-> gh.cache]
             ELSE IF ph.err # "none"
             THEN [call |-> [seen EXCEPT !.err = "failed to process HTML"],
                   cache |-> gh.cache]
             ELSE IF xt.out = "" /\ ph.out = ""
             THEN [call |-> [seen EXCEPT !.err = "no templates found"],
                   cache |-> gh.cache]
             ELSE [call |-> [seen EXCEPT !.text = xt.out, !.html = ph.out],
                   cache |-> gh.cache]

\* A RenderEmail whose resolves parse the document into the shared base
\* set itself, with no Clone.
RenderEmailIntoBase(name, data, layoutArg) ==
  /\ LET r == renderEmail(emailCache, baseTemplates, sources, processor,
                          defaultLayout, name, data, layoutArg)
         layout == effectiveLayout(layoutArg, defaultLayout)
     IN /\ emailCache' = r.cache
        /\ last' = r.call
        /\ baseTemplates' =
             [f \in Formats |->
                IF cacheKey(f, name, layout) \in DOMAIN r.cache
                THEN r.cache[cacheKey(f, name, layout)]
                ELSE baseTemplates[f]]
  /\ UNCHANGED <<sources, funcMap, processor, defaultLayout, callers>>

RenderEmail(name, data, layoutArg) ==
  /\ LET r == renderEmail(emailCache, baseTemplates, sources, processor,
                          defaultLayout, name, data, layoutArg)
     IN /\ emailCache' = r.cache
        /\ last' = r.call
  /\ UNCHANGED <<sources, baseTemplates, funcMap, processor, defaultLayout, callers>>

\* A ClearCache that also rebuilds the base sets.
ClearCacheRebuild ==
  /\ emailCache' = EmptyTmpl
  /\ baseTemplates' = loadBaseTemplates(sources, funcMap).base
  /\ last' = [NoCall EXCEPT !.op = "ClearCache",
                            !.evicted = Cardinality(DOMAIN emailCache)]
  /\ UNCHANGED <<sources, funcMap, processor, defaultLayout, callers>>

\* Manager.ClearCache
ClearCache ==
  /\ emailCache' = EmptyTmpl
  /\ last' = [NoCall EXCEPT !.op = "ClearCache",
                            !.evicted = Cardinality(DOMAIN emailCache)]
  /\ UNCHANGED <<sources, baseTemplates, funcMap, processor, defaultLayout, callers>>

\* An AddFunc that keeps the function a name already has.
AddFuncKeepExisting(name, fn) ==
  /\ funcMap' = funcMap @@ (name :> fn)
  /\ last' = [NoCall EXCEPT !.op = "AddFunc", !.arg = name, !.funcs = name :> fn]
  /\ UNCHANGED <<sources, baseTemplates, emailCache, processor, defaultLayout, callers>>

\* Manager.AddFunc: the entry is set in the manager's map; always nil error.
AddFunc(name, fn) ==
  /\ funcMap' = (name :> fn) @@ funcMap
  /\ last' = [NoCall EXCEPT !.op = "AddFunc", !.arg = name, !.funcs = name :> fn]
  /\ UNCHANGED <<sources, baseTemplates, emailCache, processor, defaultLayout, callers>>

\* Manager.AddFuncs: every entry of funcs is set in the manager's map;
\* always nil error.
AddFuncs(funcs) ==
  /\ funcMap' = funcs @@ funcMap
  /\ last' = [NoCall EXCEPT !.op = "AddFuncs", !.funcs = funcs]
  /\ UNCHANGED <<sources, baseTemplates, emailCache, processor, defaultLayout, callers>>

Next ==
  \/ \E s \in SourcePool : AddSource(s)
  \/ \E a \in RenderArgs : RenderEmail(a[1], a[2], a[3])
  \/ ClearCache
  \/ \E f \in FuncArgs : AddFunc(f[1], f[2])

Spec == Init /\ [][Next]_vars

\* The registry alone: sources are added one after the other, up to
\* MaxRegistry of them, a source without any directory among them.
RegistryPool == SourcePool \cup {TemplateSource("empty", <<>>)}

NextRegistry == \E s \in RegistryPool : AddSourceWithin(s, MaxRegistry)

SpecRegistry == Init /\ [][NextRegistry]_vars

\* The layouts: a manager configured with or without a default layout and
\* with the source "base", and renders of one document under each layout
\* argument.
ConfigLayouts == {"", "marketing"}
LayoutSourcePool == {TemplateSource("override", OverrideFS), TemplateSource("extra", ExtraFS)}
LayoutRenderArgs ==
  {<<"welcome", "full", l>> : l \in {"", "base", "marketing"}}

InitLayout ==
  \E l \in ConfigLayouts : NewManager(ManagerConfig(<<TemplateSource("base", BaseFS)>>, l))

NextLayout ==
  \/ \E s \in LayoutSourcePool : AddSource(s)
  \/ \E a \in LayoutRenderArgs : RenderEmail(a[1], a[2], a[3])
  \/ ClearCache

SpecLayout == InitLayout /\ [][NextLayout]_vars

\* The custom functions: a manager with the source "base", to which
\* functions and sources whose documents call them are added.
FuncSourcePool == {TemplateSource("stamped", StampedFS), TemplateSource("override", OverrideFS)}
FuncRenderArgs == {<<"stamp", "full", "">>, <<"welcome", "full", "">>}

\* The registrations: a new name and the built-in name theme, each with
\* either of two functions, and a map that sets a name of each kind.
FuncCalls == {"fmtDate", "theme"} \X {"fn1", "fn2"}
FuncMapArgs == {("fmtDate" :> "fn2") @@ ("last" :> "fn1"), NoDefs}

\* The function maps a configuration gives: none, a new name, a new name
\* and a default one.
ConfigFuncMaps == {NoDefs, "fmtDate" :> "fn1", ("fmtDate" :> "fn1") @@ ("dict" :> "fn2")}

InitFuncs ==
  \E funcs \in ConfigFuncMaps :
     NewManager(WithFuncMap(ManagerConfig(<<TemplateSource("base", BaseFS)>>, ""), funcs))

NextFuncs ==
  \/ \E f \in FuncCalls : AddFunc(f[1], f[2])
  \/ \E funcs \in FuncMapArgs : AddFuncs(funcs)
  \/ \E s \in FuncSourcePool : AddSource(s)
  \/ \E a \in FuncRenderArgs : RenderEmail(a[1], a[2], a[3])
  \/ ClearCache

SpecFuncs == InitFuncs /\ [][NextFuncs]_vars

\* ---------------------------------------------- the calls, interleaved
\* Each caller runs one call at a time; a call is cut at its lock
\* operations and, inside AddSource's critical section, at its three
\* statements. pc[p] is where caller p stands, loc[p] its local variables.

\* The sources and documents of the interleaved calls.
ConcSourcePool == {TemplateSource("override", OverrideFS)}
ConcRenderArgs == {<<"welcome", "full", "">>}

\* NewManager with the source "base" configured and the default processor.
InitConc ==
  NewManager(ManagerConfig(<<TemplateSource("base", BaseFS)>>, "")) /\ processor = "pass"

\* mu.Lock() returning: nobody holds the lock.
Lock(p) == mu.writer = 0 /\ mu.readers = {} /\ mu' = [mu EXCEPT !.writer = p]

\* mu.RLock() returning: no writer holds the lock.
RLock(p) == mu.writer = 0 /\ mu' = [mu EXCEPT !.readers = @ \cup {p}]

Goto(p, label) == pc' = [pc EXCEPT ![p] = label]

\* An AddSource that does not wait for the lock.
AS_LockNoWait(p, source) ==
  /\ pc[p] = "idle"
  /\ Len(sources) < MaxSources
  /\ mu' = [mu EXCEPT !.writer = p]
  /\ Goto(p, "as_append")
  /\ loc' = [loc EXCEPT ![p] = [Idle EXCEPT !.source = source]]
  /\ UNCHANGED <<sources, baseTemplates, emailCache, funcMap, processor, defaultLayout, last>>

\* AddSource: m.mu.Lock()
AS_Lock(p, source) ==
  /\ pc[p] = "idle"
  /\ Len(sources) < MaxSources
  /\ Lock(p)
  /\ Goto(p, "as_append")
  /\ loc' = [loc EXCEPT ![p] = [Idle EXCEPT !.source = source]]
  /\ UNCHANGED <<sources, baseTemplates, emailCache, funcMap, processor, defaultLayout, last>>

\* AddSource: m.sources = append(m.sources, source)
AS_Append(p) ==
  /\ pc[p] = "as_append"
  /\ sources' = Append(sources, loc[p].source)
  /\ Goto(p, "as_clear")
  /\ UNCHANGED <<baseTemplates, emailCache, funcMap, processor, defaultLayout, last, mu, loc>>

\* AddSource: m.emailCache = make(...)
AS_Clear(p) ==
  /\ pc[p] = "as_clear"
  /\ emailCache' = EmptyTmpl
  /\ Goto(p, "as_load")
  /\ UNCHANGED <<sources, baseTemplates, funcMap, processor, defaultLayout, last, mu, loc>>

\* AddSource: return m.loadBaseTemplates(), and the deferred Unlock
AS_Load(p) ==
  /\ pc[p] = "as_load"
  /\ baseTemplates' = loadBaseTemplates(sources, funcMap).base
  /\ mu' = [mu EXCEPT !.writer = 0]
  /\ Goto(p, "idle")
  /\ loc' = [loc EXCEPT ![p] = Idle]
  /\ UNCHANGED <<sources, emailCache, funcMap, processor, defaultLayout, last>>

\* ClearCache: m.mu.Lock()
CC_Lock(p) ==
  /\ pc[p] = "idle"
  /\ Lock(p)
  /\ Goto(p, "cc_clear")
  /\ UNCHANGED <<sources, baseTemplates, emailCache, funcMap, processor, defaultLayout, last, loc>>

\* ClearCache: the cache is replaced, then m.mu.Unlock()
CC_Clear(p) ==
  /\ pc[p] = "cc_clear"
  /\ emailCache' = EmptyTmpl
  /\ mu' = [mu EXCEPT !.writer = 0]
  /\ Goto(p, "idle")
  /\ UNCHANGED <<sources, baseTemplates, funcMap, processor, defaultLayout, last, loc>>

\* AddFunc: m.mu.Lock()
AF_Lock(p, name, fn) ==
  /\ pc[p] = "idle"
  /\ Lock(p)
  /\ Goto(p, "af_set")
  /\ loc' = [loc EXCEPT ![p] = [Idle EXCEPT !.name = name, !.fn = fn]]
  /\ UNCHANGED <<sources, baseTemplates, emailCache, funcMap, processor, defaultLayout, last>>

\* AddFunc: m.funcMap[name] = fn, and the deferred Unlock
AF_Set(p) ==
  /\ pc[p] = "af_set"
  /\ funcMap' = (loc[p].name :> loc[p].fn) @@ funcMap
  /\ mu' = [mu EXCEPT !.writer = 0]
  /\ Goto(p, "idle")
  /\ loc' = [loc EXCEPT ![p] = Idle]
  /\ UNCHANGED <<sources, baseTemplates, emailCache, processor, defaultLayout, last>>

\* RenderEmail is called: the layout defaults, the text version is first.
RE_Call(p, name, data, layoutArg) ==
  /\ pc[p] = "idle"
  /\ Goto(p, "ge_rlock")
  /\ loc' = [loc EXCEPT ![p] =
       [Idle EXCEPT !.name = name, !.data = data, !.format = FormatText,
                    !.layout = effectiveLayout(layoutArg, defaultLayout)]]
  /\ UNCHANGED <<sources, baseTemplates, emailCache, funcMap, processor, defaultLayout, last, mu>>

\* getEmailTemplate: m.mu.RLock()
GE_RLock(p) ==
  /\ pc[p] = "ge_rlock"
  /\ RLock(p)
  /\ Goto(p, "ge_check")
  /\ UNCHANGED <<sources, baseTemplates, emailCache, funcMap, processor, defaultLayout, last, loc>>

\* getEmailTemplate's first lookup without the RUnlock that follows it.
GE_CheckKeepRLock(p) ==
  /\ pc[p] = "ge_check"
  /\ UNCHANGED mu
  /\ LET key == cacheKey(loc[p].format, loc[p].name, loc[p].layout)
     IN IF key \in DOMAIN emailCache
        THEN /\ loc' = [loc EXCEPT ![p].tmpl = emailCache[key]]
             /\ Goto(p, "re_exec")
        ELSE /\ Goto(p, "ge_lock")
             /\ UNCHANGED loc
  /\ UNCHANGED <<sources, baseTemplates, emailCache, funcMap, processor, defaultLayout, last>>

\* getEmailTemplate: the lookup under the read lock, then m.mu.RUnlock()
GE_Check(p) ==
  /\ pc[p] = "ge_check"
  /\ mu' = [mu EXCEPT !.readers = @ \ {p}]
  /\ LET key == cacheKey(loc[p].format, loc[p].name, loc[p].layout)
     IN IF key \in DOMAIN emailCache
        THEN /\ loc' = [loc EXCEPT ![p].tmpl = emailCache[key]]
             /\ Goto(p, "re_exec")
        ELSE /\ Goto(p, "ge_lock")
             /\ UNCHANGED loc
  /\ UNCHANGED <<sources, baseTemplates, emailCache, funcMap, processor, defaultLayout, last>>

\* getEmailTemplate: m.mu.Lock()
GE_Lock(p) ==
  /\ pc[p] = "ge_lock"
  /\ Lock(p)
  /\ Goto(p, "ge_resolve")
  /\ UNCHANGED <<sources, baseTemplates, emailCache, funcMap, processor, defaultLayout, last, loc>>

\* The end of RenderEmail: no body at all is "no templates found".
Finish(l) ==
  IF l.err = "none" /\ l.text = "" /\ l.html = ""
  THEN [l EXCEPT !.err = "no templates found"]
  ELSE l

\* getEmailTemplate under the write lock: the second lookup, the clone,
\* the search, the parse and the store, then the deferred Unlock. A format
\* that does not resolve is passed over by RenderEmail.
GE_Resolve(p) ==
  /\ pc[p] = "ge_resolve"
  /\ mu' = [mu EXCEPT !.writer = 0]
  /\ LET r == getEmailTemplate(emailCache, baseTemplates, sources,
                               loc[p].name, loc[p].layout, loc[p].format)
     IN /\ emailCache' = r.cache
        /\ IF r.err = "none"
           THEN /\ loc' = [loc EXCEPT ![p].tmpl = r.tmpl]
                /\ Goto(p, "re_exec")
           ELSE IF loc[p].format = FormatText
           THEN /\ loc' = [loc EXCEPT ![p].format = FormatHTML]
                /\ Goto(p, "ge_rlock")
           ELSE /\ loc' = [loc EXCEPT ![p] = Finish(@)]
                /\ Goto(p, "re_return")
  /\ UNCHANGED <<sources, baseTemplates, funcMap, processor, defaultLayout, last>>

\* RenderEmail: the resolved document is executed (and the HTML output
\* processed); an error ends the call with no result.
RE_Exec(p) ==
  /\ pc[p] = "re_exec"
  /\ LET x == executeTemplate(loc[p].tmpl, "layout", loc[p].data)
         ph == IF processor # "nil" THEN Process(processor, x.out)
               ELSE [out |-> x.out, err |-> "none"]
     IN IF loc[p].format = FormatText
        THEN IF x.err # "none"
             THEN /\ loc' = [loc EXCEPT ![p].err = "failed to render text template"]
                  /\ Goto(p, "re_return")
             ELSE /\ loc' = [loc EXCEPT ![p].text = x.out, ![p].format = FormatHTML]
                  /\ Goto(p, "ge_rlock")
        ELSE /\ Goto(p, "re_return")
             /\ IF x.err # "none"
                THEN loc' = [loc EXCEPT ![p].err = "failed to render HTML template",
                                        ![p].text = ""]
                ELSE IF ph.err # "none"
                THEN loc' = [loc EXCEPT ![p].err = "failed to process HTML",
                                        ![p].text = ""]
                ELSE loc' = [loc EXCEPT ![p] = Finish([@ EXCEPT !.html = ph.out])]
  /\ UNCHANGED <<sources, baseTemplates, emailCache, funcMap, processor, defaultLayout, last, mu>>

\* RenderEmail returns.
RE_Return(p) ==
  /\ pc[p] = "re_return"
  /\ Goto(p, "idle")
  /\ loc' = [loc EXCEPT ![p] = Idle]
  /\ UNCHANGED <<sources, baseTemplates, emailCache, funcMap, processor, defaultLayout, last, mu>>

NextConc ==
  \E p \in Procs :
    \/ \E s \in ConcSourcePool : AS_Lock(p, s)
    \/ AS_Append(p)
    \/ AS_Clear(p)
    \/ AS_Load(p)
    \/ CC_Lock(p)
    \/ CC_Clear(p)
    \/ \E f \in FuncArgs : AF_Lock(p, f[1], f[2])
    \/ AF_Set(p)
    \/ \E a \in ConcRenderArgs : RE_Call(p, a[1], a[2], a[3])
    \/ GE_RLock(p)
    \/ GE_Check(p)
    \/ GE_Lock(p)
    \/ GE_Resolve(p)
    \/ RE_Exec(p)
    \/ RE_Return(p)

SpecConc == InitConc /\ [][NextConc]_vars

\* The calls with the wait for the lock made a state of its own. A call
\* that wants the write lock first stands at its Lock (label x_lock); the
\* Lock then shuts out new readers (mu.writer is set, label x_wait) and
\* returns once the readers that hold the lock have left.
LiveSourcePool == {TemplateSource("broken", BrokenFS)}
LiveRenderArgs == {<<"welcome", "full", "">>, <<"ghost", "full", "">>}

\* The callers that have called AddSource and not appended yet.
Appending == {q \in Procs : pc[q] \in {"as_lock", "as_wait", "as_append"}}

\* AddSource is called.
AS_Call(p, source) ==
  /\ pc[p] = "idle"
  /\ Len(sources) + Cardinality(Appending) < MaxSources
  /\ Goto(p, "as_lock")
  /\ loc' = [loc EXCEPT ![p] = [Idle EXCEPT !.source = source]]
  /\ UNCHANGED <<sources, baseTemplates, emailCache, funcMap, processor, defaultLayout, last, mu>>

\* ClearCache is called.
CC_Call(p) ==
  /\ pc[p] = "idle"
  /\ Goto(p, "cc_lock")
  /\ UNCHANGED <<sources, baseTemplates, emailCache, funcMap, processor, defaultLayout, last, mu, loc>>

\* AddFunc is called.
AF_Call(p, name, fn) ==
  /\ pc[p] = "idle"
  /\ Goto(p, "af_lock")
  /\ loc' = [loc EXCEPT ![p] = [Idle EXCEPT !.name = name, !.fn = fn]]
  /\ UNCHANGED <<sources, baseTemplates, emailCache, funcMap, processor, defaultLayout, last, mu>>

\* The label at which caller p waits for the readers, and the label of the
\* critical section it then enters.
WaitLabel(label) ==
  CASE label = "as_lock" -> "as_wait"
    [] label = "cc_lock" -> "cc_wait"
    [] label = "af_lock" -> "af_wait"
    [] label = "ge_lock" -> "ge_wait"
EnterLabel(label) ==
  CASE label = "as_wait" -> "as_append"
    [] label = "cc_wait" -> "cc_clear"
    [] label = "af_wait" -> "af_set"
    [] label = "ge_wait" -> "ge_resolve"

\* m.mu.Lock(), first half: no other writer holds or awaits the lock; from
\* here on RLock blocks.
MU_LockPending(p) ==
  /\ pc[p] \in {"as_lock", "cc_lock", "af_lock", "ge_lock"}
  /\ mu.writer = 0
  /\ mu' = [mu EXCEPT !.writer = p]
  /\ Goto(p, WaitLabel(pc[p]))
  /\ UNCHANGED <<sources, baseTemplates, emailCache, funcMap, processor, defaultLayout, last, loc>>

\* m.mu.Lock(), second half: the last reader has left and Lock returns.
MU_LockReturn(p) ==
  /\ pc[p] \in {"as_wait", "cc_wait", "af_wait", "ge_wait"}
  /\ mu.writer = p
  /\ mu.readers = {}
  /\ Goto(p, EnterLabel(pc[p]))
  /\ UNCHANGED <<sources, baseTemplates, emailCache, funcMap, processor, defaultLayout, last, loc, mu>>

\* The steps of caller p that begin a call.
Calls(p) ==
  \/ \E s \in LiveSourcePool : AS_Call(p, s)
  \/ CC_Call(p)
  \/ \E f \in FuncArgs : AF_Call(p, f[1], f[2])
  \/ \E a \in LiveRenderArgs : RE_Call(p, a[1], a[2], a[3])

\* The steps of caller p that wait for nobody.
Runs(p) ==
  \/ AS_Append(p)
  \/ AS_Clear(p)
  \/ AS_Load(p)
  \/ CC_Clear(p)
  \/ AF_Set(p)
  \/ GE_Check(p)
  \/ GE_Resolve(p)
  \/ RE_Exec(p)
  \/ RE_Return(p)

NextLive ==
  \E p \in Procs :
    \/ Calls(p)
    \/ MU_LockPending(p)
    \/ MU_LockReturn(p)
    \/ GE_RLock(p)
    \/ Runs(p)

\* The scheduler runs every caller that can run; sync.RWMutex hands the
\* lock to a caller that is blocked again and again (Unlock wakes the
\* blocked readers, the writers' mutex hands over to its longest waiter);
\* once new readers are shut out the wait for the readers to leave ends as
\* soon as they have left. Nothing obliges a caller to begin a call.
FairLive ==
  \A p \in Procs :
     /\ WF_vars(Runs(p))
     /\ WF_vars(MU_LockReturn(p))
     /\ SF_vars(MU_LockPending(p))
     /\ SF_vars(GE_RLock(p))

SpecLive == InitConc /\ [][NextLive]_vars /\ FairLive

\* "restyle": the document welcome anew in both formats.
RestyleFS ==
  << File(EmailsDir, "welcome", ".html",
          Doc(T("", FALSE, <<"layout:base">>), T("Hey", FALSE, <<"component:footer">>))),
     File(EmailsDir, "welcome", ".txt",
          Doc(T("", FALSE, <<"layout:base">>), T("Hey.", FALSE, <<>>))) >>

\* Renders of welcome interleaved with the addition of "restyle" and with
\* ClearCache.
NextSnap ==
  \E p \in Procs :
    \/ AS_Lock(p, TemplateSource("restyle", RestyleFS))
    \/ AS_Append(p)
    \/ AS_Clear(p)
    \/ AS_Load(p)
    \/ CC_Lock(p)
    \/ CC_Clear(p)
    \/ \E a \in ConcRenderArgs : RE_Call(p, a[1], a[2], a[3])
    \/ GE_RLock(p)
    \/ GE_Check(p)
    \/ GE_Lock(p)
    \/ GE_Resolve(p)
    \/ RE_Exec(p)
    \/ RE_Return(p)

SpecSnap == InitConc /\ [][NextSnap]_vars

\* ------------------------------------------------------ the theme lookup
\* A theme value is a nested map[string]any, a leaf or nil (the zero
\* value a map read gives a missing key). A path is a string, kept as the
\* sequence of its characters.

NilValue == [kind |-> "nil", v |-> "", m |-> NoDefs]
Leaf(v) == [kind |-> "leaf", v |-> v, m |-> NoDefs]
MapValue(m) == [kind |-> "map", v |-> "", m |-> m]

\* The string of a sequence of characters.
RECURSIVE StringOf(_)
StringOf(chars) == IF chars = <<>> THEN "" ELSE Head(chars) \o StringOf(Tail(chars))

\* strings.Split(path, "."): cur is the segment being read, acc the
\* segments already closed.
RECURSIVE splitFrom(_, _, _)
splitFrom(chars, cur, acc) ==
  IF chars = <<>> THEN Append(acc, StringOf(cur))
  ELSE IF Head(chars) = "." THEN splitFrom(Tail(chars), <<>>, Append(acc, StringOf(cur)))
  ELSE splitFrom(Tail(chars), Append(cur, Head(chars)), acc)

Split(path) == splitFrom(path, <<>>, <<>>)

\* current[part] on a map[string]any.
MapIndex(current, part) == IF part \in DOMAIN current THEN current[part] ELSE NilValue

\* A lookup that reads the first segment only.
GetThemeValueFirstSegment(theme, path) ==
  IF path = <<>> THEN NilValue ELSE MapIndex(theme, Split(path)[1])

\* The loop of GetThemeValue over the segments still to walk.
RECURSIVE walkTheme(_, _)
walkTheme(current, parts) ==
  IF Len(parts) = 1 THEN MapIndex(current, parts[1])
  ELSE LET next == MapIndex(current, Head(parts))
       IN IF next.kind # "map" THEN NilValue ELSE walkTheme(next.m, Tail(parts))

\* GetThemeValue(theme, path)
GetThemeValue(theme, path) ==
  IF path = <<>> THEN NilValue ELSE walkTheme(theme, Split(path))

\* The themes: the tree {a: {b: "v"}}, a deeper tree with a leaf where a
\* path goes on, with empty keys and a key of two characters, and the
\* empty theme.
ExampleTheme == "a" :> MapValue("b" :> Leaf("v"))

DeepTheme ==
  ("a" :> Leaf("1"))
  @@ ("b" :> MapValue(("a" :> MapValue("c" :> Leaf("deep"))) @@ ("" :> Leaf("empty"))))
  @@ ("" :> MapValue("" :> Leaf("dots")))
  @@ ("xy" :> Leaf("long"))

ThemePool == {ExampleTheme, DeepTheme, NoDefs}

PathChars == {"a", "b", "c", "x", "y", "."}

\* The paths of at most MaxPathLen characters.
Paths == UNION {[1..n -> PathChars] : n \in 0..MaxPathLen}

\* A manager with the default processor and some theme, and a template
\* about to call theme with some path.
InitTheme ==
  /\ funcMap = managerFuncMap(ManagerConfig(<<>>, ""))
  /\ processor = "pass"
  /\ defaultLayout = DefaultLayoutName
  /\ sources = <<BuiltinSource>>
  /\ emailCache = EmptyTmpl
  /\ baseTemplates = loadBaseTemplates(<<BuiltinSource>>, funcMap).base
  /\ mu = Unlocked
  /\ pc = [p \in Procs |-> "idle"]
  /\ loc = [p \in Procs |-> Idle]
  /\ \E theme \in ThemePool, path \in Paths :
        last = [op |-> "theme", theme |-> theme, path |-> path, value |-> NilValue]

\* The theme function of themeFuncs: GetThemeValue(m.theme, path).
ThemeCall ==
  /\ last.op = "theme"
  /\ last' = [last EXCEPT !.op = "GetThemeValue",
                          !.value = GetThemeValue(last.theme, last.path)]
  /\ UNCHANGED <<sources, baseTemplates, emailCache, funcMap, processor, defaultLayout,
                 callers>>

NextTheme == ThemeCall

SpecTheme == InitTheme /\ [][NextTheme]_vars

\* ------------------------------------------------------------ file paths
\* A file path as fs.WalkDir(source.FS, rootDir) hands it to the walk
\* function, kept as a sequence of tokens: the root directory's name, "/",
\* ".", and the pieces "a", "html" and "txt" of file names.

\* strings.TrimPrefix and strings.TrimSuffix
TrimPrefix(str, prefix) ==
  IF Len(str) >= Len(prefix) /\ SubSeq(str, 1, Len(prefix)) = prefix
  THEN SubSeq(str, Len(prefix) + 1, Len(str))
  ELSE str

TrimSuffix(str, suffix) ==
  IF Len(str) >= Len(suffix) /\ SubSeq(str, Len(str) - Len(suffix) + 1, Len(str)) = suffix
  THEN SubSeq(str, 1, Len(str) - Len(suffix))
  ELSE str

\* An extension taken from the first dot of the path.
pathExtFirstDot(str) ==
  LET dots == {i \in 1..Len(str) : str[i] = "."}
  IN IF dots = {} THEN <<>>
     ELSE SubSeq(str, CHOOSE i \in dots : \A j \in dots : i <= j, Len(str))

\* path.Ext: scanning back from the end, the suffix that starts at the
\* first dot met before any slash; empty when there is none.
RECURSIVE pathExtFrom(_, _)
pathExtFrom(str, i) ==
  IF i = 0 \/ str[i] = "/" THEN <<>>
  ELSE IF str[i] = "." THEN SubSeq(str, i, Len(str))
  ELSE pathExtFrom(str, i - 1)

pathExt(str) == pathExtFrom(str, Len(str))

\* Manager.templateName on a path: [name, id], the tokens left of the path
\* and the identifier built from them.
templateNameOfPath(rootDir, filePath) ==
  LET trimmed == TrimPrefix(TrimPrefix(filePath, <<rootDir>>), <<"/">>)
      name == TrimSuffix(trimmed, pathExt(trimmed))
  IN [name |-> name,
      id |-> CASE rootDir = LayoutsDir -> "layout:" \o StringOf(name)
               [] rootDir = ComponentsDir -> "component:" \o StringOf(name)
               [] rootDir = PartialsDir -> "partial:" \o StringOf(name)
               [] OTHER -> StringOf(name)]

RootDirs == {LayoutsDir, ComponentsDir, PartialsDir, EmailsDir}

PathTokens == {"a", "/", ".", "html", "txt"}

\* A path below a directory as fs.WalkDir yields them: no empty element
\* and no element made of dots only.
ValidRel(rel) ==
  /\ rel # <<>>
  /\ rel[1] # "/" /\ rel[Len(rel)] # "/"
  /\ \A i \in 1..(Len(rel) - 1) : ~(rel[i] = "/" /\ rel[i + 1] = "/")
  /\ \A i \in 1..Len(rel), j \in 1..Len(rel) :
        ( /\ i <= j
          /\ \A k \in i..j : rel[k] = "."
          /\ (i = 1 \/ rel[i - 1] = "/") )
        => (j < Len(rel) /\ rel[j + 1] # "/")

RelPaths == {rel \in UNION {[1..n -> PathTokens] : n \in 1..MaxRelLen} : ValidRel(rel)}

\* A manager whose rebuild walks some directory and meets some file.
InitNaming ==
  /\ funcMap = managerFuncMap(ManagerConfig(<<>>, ""))
  /\ processor = "pass"
  /\ defaultLayout = DefaultLayoutName
  /\ sources = <<BuiltinSource>>
  /\ emailCache = EmptyTmpl
  /\ baseTemplates = loadBaseTemplates(<<BuiltinSource>>, funcMap).base
  /\ mu = Unlocked
  /\ pc = [p \in Procs |-> "idle"]
  /\ loc = [p \in Procs |-> Idle]
  /\ \E rootDir \in RootDirs, rel \in RelPaths :
        last = [op |-> "walk", rootDir |-> rootDir, rel |-> rel,
                filePath |-> <<rootDir, "/">> \o rel,
                format |-> "", name |-> <<>>, id |-> ""]

\* The walk function of loadDirectory: the file's format and name.
NameFile ==
  /\ last.op = "walk"
  /\ LET n == templateNameOfPath(last.rootDir, last.filePath)
     IN last' = [last EXCEPT !.op = "templateName",
                             !.format = formatFromFile(StringOf(pathExt(last.filePath))),
                             !.name = n.name, !.id = n.id]
  /\ UNCHANGED <<sources, baseTemplates, emailCache, funcMap, processor, defaultLayout,
                 callers>>

NextNaming == NameFile

SpecNaming == InitNaming /\ [][NextNaming]_vars

\* -------------------------------------------------------------- Mailpen

\* Message: the fields Send and processTemplates read or write.
Message(from, template, layout, data, subject, text, html) ==
  [From |-> from, Template |-> template, Layout |-> layout, Data |-> data,
   Subject |-> subject, TextBody |-> text, HTMLBody |-> html]

NoMessage == Message("", "", "", "nil", "", "", "")

\* The messages handed to Send: with and without a template, a sender and
\* bodies of their own.
MessagePool ==
  { Message(from, template, "", data, "Hi", body[1], body[2]) :
      from \in {"", "me@x"}, template \in {"", "welcome", "ghost", "stamp"},
      data \in {"full", "nil"}, body \in {<<"", "">>, <<"plain", "<p>own</p>">>} }

\* Config: nil, or the fields New and Send read.
NilConfig ==
  [ptr |-> "nil", From |-> "", FuncMap |-> NoDefs, HTMLProcessor |-> "nil", Sources |-> <<>>]

Config(from, funcs, proc, srcs) ==
  [ptr |-> "set", From |-> from, FuncMap |-> funcs, HTMLProcessor |-> proc, Sources |-> srcs]

\* The provider handed to New: nil or an implementation of Provider.
Providers == {"nil", "mock"}

\* What Provider.Send returns.
ProviderOutcomes == {"none", "provider failed"}

\* The source lists of a configuration: none, sources that load, and lists
\* with a source whose component is malformed.
ConfigSourceLists ==
  { <<>>,
    <<TemplateSource("base", BaseFS)>>,
    <<TemplateSource("base", BaseFS), TemplateSource("override", OverrideFS)>>,
    <<TemplateSource("base", BaseFS), TemplateSource("stamped", StampedFS)>>,
    <<TemplateSource("broken", BrokenFS)>>,
    <<TemplateSource("base", BaseFS), TemplateSource("broken", BrokenFS)>> }

ConfigPool ==
  {NilConfig} \cup
  { Config("noreply@x", funcs, proc, srcs) :
      funcs \in {NoDefs, "fmtDate" :> "fn1"}, proc \in {"nil", "fail"},
      srcs \in ConfigSourceLists }

\* The options handed to New, each by what it returns.
OptionLists == {<<>>, <<"ok">>, <<"ok", "fail">>}

\* The record of a Mailpen: the arguments of New, whether it returned an
\* instance, and of the last Send its position, the message as the caller
\* gave it and as it is now, the RenderEmail calls made, the messages the
\* provider was called with, what the provider returned, and the error.
MailpenCall(provider, config, opts) ==
  [op |-> "New", provider |-> provider, config |-> config, opts |-> opts,
   mp |-> FALSE, err |-> "none", cause |-> "none", at |-> "idle",
   given |-> NoMessage, msg |-> NoMessage, rendered |-> <<>>, sent |-> <<>>,
   outcome |-> "none"]

\* A New that lacks the check of the provider.
newErrorUnchecked(provider, config, first, again, opts) ==
  IF config.ptr = "nil" THEN "config is required"
  ELSE IF first.err # "none" THEN "failed to create templates manager"
  ELSE IF again.err # "none" THEN "failed to add template sources"
  ELSE IF \E i \in 1..Len(opts) : opts[i] = "fail" THEN "failed to apply option"
  ELSE "none"

\* The error New returns: the provider and the configuration are checked
\* before anything is built; first is what NewManager's loading gave,
\* again what addTemplateSources' gave.
newError(provider, config, first, again, opts) ==
  IF provider = "nil" THEN "provider is required"
  ELSE IF config.ptr = "nil" THEN "config is required"
  ELSE IF first.err # "none" THEN "failed to create templates manager"
  ELSE IF again.err # "none" THEN "failed to add template sources"
  ELSE IF \E i \in 1..Len(opts) : opts[i] = "fail" THEN "failed to apply option"
  ELSE "none"

\* mailpen.New(provider, config, opts...): a nil provider, then a nil
\* config, is refused; NewManager is given config.FuncMap,
\* config.HTMLProcessor (nil: the pass-through processor) and
\* config.Sources, and adds the built-in source and the sources one after
\* the other, failing at the first that does not load (as loading the
\* whole list does); addTemplateSources adds config.Sources once more;
\* then the options run. On an error no instance is returned.
New(provider, config, opts) ==
  LET funcs == managerFuncMap(WithFuncMap(ManagerConfig(config.Sources, ""), config.FuncMap))
      first == loadBaseTemplates(<<BuiltinSource>> \o config.Sources, funcs)
      again == loadBaseTemplates(<<BuiltinSource>> \o config.Sources \o config.Sources, funcs)
      err == newError(provider, config, first, again, opts)
      made == err = "none"
  IN /\ funcMap = (IF made THEN funcs ELSE NoDefs)
     /\ processor = (IF ~made THEN "nil"
                     ELSE IF config.HTMLProcessor = "nil" THEN "pass" ELSE config.HTMLProcessor)
     /\ defaultLayout = (IF made THEN DefaultLayoutName ELSE "")
     /\ sources = (IF made THEN <<BuiltinSource>> \o config.Sources \o config.Sources ELSE <<>>)
     /\ emailCache = EmptyTmpl
     /\ baseTemplates = (IF made THEN again.base ELSE loadBaseTemplates(<<>>, NoDefs).base)
     /\ last = [MailpenCall(provider, config, opts) EXCEPT
                  !.mp = made, !.err = err,
                  !.cause = (IF first.err # "none" THEN first.err ELSE again.err)]
     /\ mu = Unlocked
     /\ pc = [p \in Procs |-> "idle"]
     /\ loc = [p \in Procs |-> Idle]

\* Mailpen.prepareTemplateData: the defaults and Config are added to the
\* keys of data, so the keys a document prints are those data holds; the
\* documents print from them as they do from data.
prepareTemplateData(data) == IF data = "nil" THEN "nil" ELSE "full"

\* Mailpen.processTemplates: [msg, err, cache, rendered]. Without a
\* template nothing is rendered; a failed render is returned; a rendered
\* body that is not empty replaces the message's (RenderEmail leaves
\* Subject empty).
processTemplates(cache, msg) ==
  IF msg.Template = ""
  THEN [msg |-> msg, err |-> "none", cache |-> cache, rendered |-> <<>>]
  ELSE LET r == renderEmail(cache, baseTemplates, sources, processor, defaultLayout,
                            msg.Template, prepareTemplateData(msg.Data), msg.Layout)
       IN IF r.call.err # "none"
          THEN [msg |-> msg, err |-> "failed to render email", cache |-> r.cache,
                rendered |-> <<r.call>>]
          ELSE [msg |-> [msg EXCEPT
                           !.TextBody = (IF r.call.text # "" THEN r.call.text ELSE @),
                           !.HTMLBody = (IF r.call.html # "" THEN r.call.html ELSE @)],
                err |-> "none", cache |-> r.cache, rendered |-> <<r.call>>]

\* Mailpen.Send is entered with msg.
Send(msg) ==
  /\ last.op \in {"New", "Send"} /\ last.mp /\ last.at \in {"idle", "done"}
  /\ last' = [last EXCEPT !.op = "Send", !.at = "processTemplates", !.given = msg,
                          !.msg = msg, !.err = "none", !.cause = "none",
                          !.rendered = <<>>, !.sent = <<>>, !.outcome = "none"]
  /\ UNCHANGED <<sources, baseTemplates, emailCache, funcMap, processor, defaultLayout,
                 callers>>

\* A Send that goes on to the provider when processing failed.
Send_processTemplatesLenient ==
  /\ last.op = "Send" /\ last.at = "processTemplates"
  /\ \E p \in {processTemplates(emailCache, last.msg)} :
        /\ emailCache' = p.cache
        /\ last' = [last EXCEPT !.at = "provider", !.msg = p.msg, !.rendered = p.rendered]
  /\ UNCHANGED <<sources, baseTemplates, funcMap, processor, defaultLayout, callers>>

\* Send's call of processTemplates: its error ends Send.
Send_processTemplates ==
  /\ last.op = "Send" /\ last.at = "processTemplates"
  /\ \E p \in {processTemplates(emailCache, last.msg)} :
        /\ emailCache' = p.cache
        /\ last' = IF p.err # "none"
                   THEN [last EXCEPT !.at = "done", !.err = "failed to process templates",
                                     !.cause = p.err, !.rendered = p.rendered]
                   ELSE [last EXCEPT !.at = "provider", !.msg = p.msg,
                                     !.rendered = p.rendered]
  /\ UNCHANGED <<sources, baseTemplates, funcMap, processor, defaultLayout, callers>>

\* The rest of Send: an empty From becomes the configuration's, then the
\* provider is called and what it returns is returned.
Send_provider(outcome) ==
  /\ last.op = "Send" /\ last.at = "provider"
  /\ LET m == IF last.msg.From = "" THEN [last.msg EXCEPT !.From = last.config.From]
              ELSE last.msg
     IN last' = [last EXCEPT !.at = "done", !.msg = m, !.sent = Append(@, m),
                             !.outcome = outcome, !.err = outcome]
  /\ UNCHANGED <<sources, baseTemplates, emailCache, funcMap, processor, defaultLayout,
                 callers>>

InitMailpen ==
  \E provider \in Providers, config \in ConfigPool, opts \in OptionLists :
     New(provider, config, opts)

NextMailpen ==
  \/ \E msg \in MessagePool : Send(msg)
  \/ Send_processTemplates
  \/ \E outcome \in ProviderOutcomes : Send_provider(outcome)

SpecMailpen == InitMailpen /\ [][NextMailpen]_vars

\* ------------------------------------------------------ the SMTP provider

\* The largest RetryCount a configuration gives.
MaxRetryCount == 3

\* A manager as NewManager builds it from an empty configuration, which no
\* call reaches.
ManagerAside ==
  /\ funcMap = managerFuncMap(ManagerConfig(<<>>, ""))
  /\ processor = "pass"
  /\ defaultLayout = DefaultLayoutName
  /\ sources = <<BuiltinSource>>
  /\ emailCache = EmptyTmpl
  /\ baseTemplates = loadBaseTemplates(<<BuiltinSource>>, funcMap).base
  /\ mu = Unlocked
  /\ pc = [p \in Procs |-> "idle"]
  /\ loc = [p \in Procs |-> Idle]

\* The RetryCount of a configuration: negative, none, or up to
\* MaxRetryCount.
RetryCounts == -1..MaxRetryCount

\* smtp.New: a RetryCount of 0 becomes 1.
retryCountOf(configured) == IF configured = 0 THEN 1 ELSE configured

\* The errors Client.DialAndSend returns.
DialErrors == {"refused", "timeout", "auth"}

\* One call made by sendWithRetry: DialAndSend with its result, or Sleep.
Called(kind, result) == [kind |-> kind, result |-> result]

\* Provider.sendWithRetry is entered: i = 0, lastErr = nil.
InitRetry ==
  /\ ManagerAside
  /\ \E configured \in RetryCounts :
        last = [op |-> "sendWithRetry", RetryCount |-> retryCountOf(configured),
                at |-> "loop", i |-> 0, lastErr |-> "nil", events |-> <<>>,
                err |-> "none", n |-> 0, cause |-> "nil"]

\* A loop body that sleeps after every failed attempt.
SR_DialSleepAlways(result) ==
  /\ last.op = "sendWithRetry" /\ last.at = "loop" /\ last.i < last.RetryCount
  /\ last' =
       IF result = "none"
       THEN [last EXCEPT !.events = Append(@, Called("DialAndSend", result)),
                         !.at = "returned"]
       ELSE [last EXCEPT !.events = Append(@, Called("DialAndSend", result)),
                         !.lastErr = result, !.at = "sleep"]
  /\ UNCHANGED <<sources, baseTemplates, emailCache, funcMap, processor, defaultLayout,
                 callers>>

\* The loop body of sendWithRetry: DialAndSend; a success returns nil; a
\* failure is kept in lastErr and, when attempts remain, followed by the
\* sleep, else by i++.
SR_Dial(result) ==
  /\ last.op = "sendWithRetry" /\ last.at = "loop" /\ last.i < last.RetryCount
  /\ last' =
       IF result = "none"
       THEN [last EXCEPT !.events = Append(@, Called("DialAndSend", result)),
                         !.at = "returned"]
       ELSE IF last.i < last.RetryCount - 1
       THEN [last EXCEPT !.events = Append(@, Called("DialAndSend", result)),
                         !.lastErr = result, !.at = "sleep"]
       ELSE [last EXCEPT !.events = Append(@, Called("DialAndSend", result)),
                         !.lastErr = result, !.i = @ + 1]
  /\ UNCHANGED <<sources, baseTemplates, emailCache, funcMap, processor, defaultLayout,
                 callers>>

\* time.Sleep(p.config.RetryDelay); continue
SR_Sleep ==
  /\ last.op = "sendWithRetry" /\ last.at = "sleep"
  /\ last' = [last EXCEPT !.events = Append(@, Called("Sleep", "none")),
                          !.i = @ + 1, !.at = "loop"]
  /\ UNCHANGED <<sources, baseTemplates, emailCache, funcMap, processor, defaultLayout,
                 callers>>

\* The loop is left: "failed to send email after %d attempts: %w" with
\* RetryCount and lastErr.
SR_Exit ==
  /\ last.op = "sendWithRetry" /\ last.at = "loop" /\ last.i >= last.RetryCount
  /\ last' = [last EXCEPT !.at = "returned", !.err = "failed to send email after %d attempts",
                          !.n = last.RetryCount, !.cause = last.lastErr]
  /\ UNCHANGED <<sources, baseTemplates, emailCache, funcMap, processor, defaultLayout,
                 callers>>

NextRetry ==
  \/ \E result \in {"none"} \cup DialErrors : SR_Dial(result)
  \/ SR_Sleep
  \/ SR_Exit

SpecRetry == InitRetry /\ [][NextRetry]_vars

\* --------------------------------------------------- the message builder

\* The number of calls made on a builder before Build.
MaxCalls == 3

\* NewMessage(): a builder with an empty message and no error.
NewMessage ==
  [msg |-> [From |-> "", To |-> <<>>, Cc |-> <<>>, Bcc |-> <<>>, ReplyTo |-> "",
            Subject |-> ""],
   err |-> "nil"]

\* The addresses handed to one call of To, Cc or Bcc.
AddressLists == {<<>>, <<"a@x">>, <<"b@x">>, <<"b@x", "a@x">>}

\* One call on the builder, as the caller made it.
BuilderCall(method, addresses, value) ==
  [method |-> method, addresses |-> addresses, value |-> value]

\* A builder that has not been called: b is the builder, calls the calls
\* made on it, built what Build returned.
InitBuilder ==
  /\ ManagerAside
  /\ last = [op |-> "NewMessage", b |-> NewMessage, calls |-> <<>>,
             built |-> [nil |-> TRUE, msg |-> NewMessage.msg, err |-> "none"]]

\* The calls the builder takes before Build.
Building == last.op \in {"NewMessage", "Builder"} /\ Len(last.calls) < MaxCalls

\* A To that sets the recipients to the addresses of the call.
Builder_ToReplace(addresses) ==
  /\ Building
  /\ last' = [last EXCEPT
                !.op = "Builder",
                !.b.msg.To = IF last.b.err # "nil" THEN @ ELSE addresses,
                !.calls = Append(@, BuilderCall("To", addresses, ""))]
  /\ UNCHANGED <<sources, baseTemplates, emailCache, funcMap, processor, defaultLayout,
                 callers>>

\* Builder.To(addresses...)
Builder_To(addresses) ==
  /\ Building
  /\ last' = [last EXCEPT
                !.op = "Builder",
                !.b.msg.To = IF last.b.err # "nil" THEN @ ELSE @ \o addresses,
                !.calls = Append(@, BuilderCall("To", addresses, ""))]
  /\ UNCHANGED <<sources, baseTemplates, emailCache, funcMap, processor, defaultLayout,
                 callers>>

\* Builder.Cc(addresses...)
Builder_Cc(addresses) ==
  /\ Building
  /\ last' = [last EXCEPT
                !.op = "Builder",
                !.b.msg.Cc = IF last.b.err # "nil" THEN @ ELSE @ \o addresses,
                !.calls = Append(@, BuilderCall("Cc", addresses, ""))]
  /\ UNCHANGED <<sources, baseTemplates, emailCache, funcMap, processor, defaultLayout,
                 callers>>

\* Builder.Bcc(addresses...)
Builder_Bcc(addresses) ==
  /\ Building
  /\ last' = [last EXCEPT
                !.op = "Builder",
                !.b.msg.Bcc = IF last.b.err # "nil" THEN @ ELSE @ \o addresses,
                !.calls = Append(@, BuilderCall("Bcc", addresses, ""))]
  /\ UNCHANGED <<sources, baseTemplates, emailCache, funcMap, processor, defaultLayout,
                 callers>>

\* Builder.From(address)
Builder_From(address) ==
  /\ Building
  /\ last' = [last EXCEPT
                !.op = "Builder",
                !.b.msg.From = IF last.b.err # "nil" THEN @ ELSE address,
                !.calls = Append(@, BuilderCall("From", <<>>, address))]
  /\ UNCHANGED <<sources, baseTemplates, emailCache, funcMap, processor, defaultLayout,
                 callers>>

\* Builder.ReplyTo(address)
Builder_ReplyTo(address) ==
  /\ Building
  /\ last' = [last EXCEPT
                !.op = "Builder",
                !.b.msg.ReplyTo = IF last.b.err # "nil" THEN @ ELSE address,
                !.calls = Append(@, BuilderCall("ReplyTo", <<>>, address))]
  /\ UNCHANGED <<sources, baseTemplates, emailCache, funcMap, processor, defaultLayout,
                 callers>>

\* Builder.Subject(subject)
Builder_Subject(subject) ==
  /\ Building
  /\ last' = [last EXCEPT
                !.op = "Builder",
                !.b.msg.Subject = IF last.b.err # "nil" THEN @ ELSE subject,
                !.calls = Append(@, BuilderCall("Subject", <<>>, subject))]
  /\ UNCHANGED <<sources, baseTemplates, emailCache, funcMap, processor, defaultLayout,
                 callers>>

\* Builder.Build(): the builder's error, else the error of a message
\* without recipients, else the message.
Builder_Build ==
  /\ last.op \in {"NewMessage", "Builder"}
  /\ last' = [last EXCEPT
                !.op = "Build",
                !.built =
                  IF last.b.err # "nil"
                  THEN [nil |-> TRUE, msg |-> NewMessage.msg, err |-> last.b.err]
                  ELSE IF Len(last.b.msg.To) = 0
                  THEN [nil |-> TRUE, msg |-> NewMessage.msg,
                        err |-> "email must have at least one recipient"]
                  ELSE [nil |-> FALSE, msg |-> last.b.msg, err |-> "none"]]
  /\ UNCHANGED <<sources, baseTemplates, emailCache, funcMap, processor, defaultLayout,
                 callers>>

NextBuilder ==
  \/ \E addresses \in AddressLists :
        Builder_To(addresses) \/ Builder_Cc(addresses) \/ Builder_Bcc(addresses)
  \/ Builder_From("me@x")
  \/ \E address \in {"r@x", "s@x"} : Builder_ReplyTo(address)
  \/ Builder_Subject("Hi")
  \/ Builder_Build

SpecBuilder == InitBuilder /\ [][NextBuilder]_vars

\* ---------------------------------------------------------- TemplateData

\* A value of a map[string]any by its dynamic type: a string, a
\* map[string]any or a map[string]string, the maps with their entries.
StringValue(s) == [type |-> "string", str |-> s, entries |-> NoDefs]
AnyMap(m) == [type |-> "map[string]any", str |-> "", entries |-> m]
StringMap(m) == [type |-> "map[string]string", str |-> "", entries |-> m]

\* The keys of the data and of the maps nested in it.
DataKeys == {"key", "links"}
NestedKeys == {"home", "about"}

\* The maps over keys whose entries all hold v.
MapsOver(keys, v) == {[k \in S |-> v] : S \in SUBSET keys}

\* The values a map of data holds, written with s, and the maps of data
\* themselves.
ValuesWith(s) ==
  {StringValue(s)}
    \cup {AnyMap(m) : m \in MapsOver(NestedKeys, s)}
    \cup {StringMap(m) : m \in MapsOver(NestedKeys, s)}

DataPool(s) ==
  UNION {[S -> ValuesWith(s)] : S \in SUBSET DataKeys}

\* TemplateData{}
EmptyData == [k \in {} |-> StringValue("")]

\* for key, value := range m { merged[key] = value }
copyEntries(merged, m) == m @@ merged

\* A Merge in which the receiver's value stays for a key of both.
MergeReceiverWins(td, data) ==
  [merged |-> copyEntries(copyEntries(EmptyData, data), td), td |-> td, data |-> data]

\* TemplateData.Merge(data): [merged, td, data], the result with the
\* receiver and the argument as the call leaves them.
Merge(td, data) ==
  [merged |-> copyEntries(copyEntries(EmptyData, td), data), td |-> td, data |-> data]

\* The body of MergeKeys' second loop for the entry k, v of data: the
\* type assertions .(map[string]any) on merged[k] and on v decide between
\* a fresh map with the entries of both and v itself.
mergeEntry(merged, k, v) ==
  IF k \in DOMAIN merged /\ merged[k].type = "map[string]any" /\ v.type = "map[string]any"
  THEN (k :> AnyMap(copyEntries(copyEntries(NoDefs, merged[k].entries), v.entries)))
         @@ merged
  ELSE (k :> v) @@ merged

\* MergeKeys' second loop over the keys of data still to visit.
RECURSIVE mergeEntries(_, _, _)
mergeEntries(merged, data, keys) ==
  IF keys = {} THEN merged
  ELSE LET k == CHOOSE key \in keys : TRUE
       IN mergeEntries(mergeEntry(merged, k, data[k]), data, keys \ {k})

\* TemplateData.MergeKeys(data): [merged, td, data].
MergeKeys(td, data) ==
  [merged |-> mergeEntries(copyEntries(EmptyData, td), data, DOMAIN data),
   td |-> td, data |-> data]

\* A receiver and an argument, before a call: given keeps them as they
\* are now.
InitData ==
  /\ ManagerAside
  /\ \E td \in DataPool("old"), data \in DataPool("new") :
        last = [op |-> "TemplateData", td |-> td, data |-> data,
                given |-> [td |-> td, data |-> data], merged |-> EmptyData]

\* td.Merge(data)
TD_Merge ==
  /\ last.op = "TemplateData"
  /\ LET r == Merge(last.td, last.data)
     IN last' = [last EXCEPT !.op = "Merge", !.merged = r.merged, !.td = r.td,
                             !.data = r.data]
  /\ UNCHANGED <<sources, baseTemplates, emailCache, funcMap, processor, defaultLayout,
                 callers>>

\* td.MergeKeys(data)
TD_MergeKeys ==
  /\ last.op = "TemplateData"
  /\ LET r == MergeKeys(last.td, last.data)
     IN last' = [last EXCEPT !.op = "MergeKeys", !.merged = r.merged, !.td = r.td,
                             !.data = r.data]
  /\ UNCHANGED <<sources, baseTemplates, emailCache, funcMap, processor, defaultLayout,
                 callers>>

NextData == TD_Merge \/ TD_MergeKeys

SpecData == InitData /\ [][NextData]_vars

\* ------------------------------------------------------- the cache keys

\* "keyed": the documents a and a:b, as HTML, each printing its own text.
KeyedFS ==
  << File(EmailsDir, "a", ".html", Doc(T("<a>", FALSE, <<>>), T("", FALSE, <<>>))),
     File(EmailsDir, "a:b", ".html", Doc(T("<a:b>", FALSE, <<>>), T("", FALSE, <<>>))) >>

\* The renders of the documents of "keyed" and of welcome, under layout
\* names with and without ':'.
KeyRenderArgs ==
  { <<"a", "full", "b:c">>, <<"a:b", "full", "c">>, <<"a", "full", "c">>,
    <<"a:b", "full", "">>, <<"welcome", "full", "">> }

InitKeys ==
  NewManager(ManagerConfig(<<TemplateSource("base", BaseFS),
                             TemplateSource("keyed", KeyedFS)>>, ""))

NextKeys ==
  \/ \E a \in KeyRenderArgs : RenderEmail(a[1], a[2], a[3])
  \/ ClearCache
  \/ AddSourceWithin(TemplateSource("override", OverrideFS), MaxSources + 1)

SpecKeys == InitKeys /\ [][NextKeys]_vars

\* ------------------------------------------------------------- properties

Range(seq) == {seq[i] : i \in 1..Len(seq)}

Max(S) == CHOOSE x \in S : \A y \in S : y <= x

Roles == {LayoutsDir, ComponentsDir, PartialsDir}

\* The files of a source that give identifier id a definition in format f.
Definitions(source, f, id) ==
  {file \in Range(source.FS) :
     /\ file.dir \in Roles
     /\ formatFromFile(file.ext) = f
     /\ templateName(file.dir, file) = id}

Identifiers ==
  UNION {{templateName(file.dir, file) : file \in {g \in Range(s.FS) : g.dir \in Roles}} :
         s \in SourcePool \cup {BuiltinSource}}

\* The positions in the registry of the sources that define id in format f.
Definers(f, id) == {i \in 1..Len(sources) : Definitions(sources[i], f, id) # {}}

\* Every AddSource so far succeeded: no registered source holds a layout,
\* component or partial that does not parse.
AllLoaded ==
  \A i \in 1..Len(sources) : \A file \in Range(sources[i].FS) :
     (file.dir \in Roles /\ formatFromFile(file.ext) # "") => file.content.ok

LayoutOf(layoutArg) == IF layoutArg = "" THEN defaultLayout ELSE layoutArg

\* The positions of the registered sources that hold emails/<name><ext>.
Holders(name, f) ==
  {i \in 1..Len(sources) :
     \E file \in Range(sources[i].FS) :
        file.dir = EmailsDir /\ file.rel = name /\ file.ext = Extension(f)}

\* The document file of the most recently added source that holds one.
SelectedFile(name, f) ==
  CHOOSE file \in Range(sources[Max(Holders(name, f))].FS) :
     file.dir = EmailsDir /\ file.rel = name /\ file.ext = Extension(f)

\* The source positions a call read for format f, in the order of the reads.
ReadsOf(call, f) ==
  LET rs == SelectSeq(call.reads, LAMBDA r : r[1] = f)
  IN [i \in 1..Len(rs) |-> rs[i][2]]

\* From position hi down to position lo.
Downto(hi, lo) == [i \in 1..(hi + 1 - lo) |-> hi + 1 - i]

\* C2: a resolve that misses the cache reads the sources from the most
\* recently added one down to the first that holds the document and no
\* further, and every cached document carries the body and the blocks of
\* the file of the most recently added source that holds it.
C2_DocumentPrecedence ==
  /\ last.op = "RenderEmail" =>
       \A f \in Formats :
          ReadsOf(last, f) # <<>> =>
             ReadsOf(last, f) =
               Downto(Len(sources),
                      IF Holders(last.arg, f) = {} THEN 1 ELSE Max(Holders(last.arg, f)))
  /\ \A a \in RenderArgs, f \in Formats :
       LET key == cacheKey(f, a[1], LayoutOf(a[3]))
       IN key \in DOMAIN emailCache =>
            /\ Holders(a[1], f) # {}
            /\ emailCache[key].tmpl[a[1]] = SelectedFile(a[1], f).content.body
            /\ \A n \in DOMAIN SelectedFile(a[1], f).content.defs :
                 emailCache[key].tmpl[n] = SelectedFile(a[1], f).content.defs[n]

\* A render that resolved, from the sources, a document two sources hold
\* with different contents.
C2_Witness ==
  /\ last.op = "RenderEmail" /\ last.err = "none"
  /\ \E f \in Formats :
       /\ ReadsOf(last, f) # <<>>
       /\ \E i \in Holders(last.arg, f) :
            /\ i < Max(Holders(last.arg, f))
            /\ \E file \in Range(sources[i].FS) :
                  /\ file.dir = EmailsDir /\ file.rel = last.arg /\ file.ext = Extension(f)
                  /\ file.content # SelectedFile(last.arg, f).content
       /\ cacheKey(f, last.arg, LayoutOf(last.layout)) \in DOMAIN emailCache

\* What RenderEmail returns for the arguments of the last call when the
\* cache is empty, every document being resolved from the registry.
FreshRender ==
  renderEmail(EmptyTmpl, baseTemplates, sources, processor, defaultLayout,
              last.arg, last.data, last.layout).call

\* C3: when AddSource returns the cache is empty, and every render returns
\* what resolving its document against the registry and the base sets as
\* they are now returns: nothing resolved before an AddSource is served.
C3_CacheInvalidation ==
  /\ last.op = "AddSource" => emailCache = EmptyTmpl
  /\ last.op = "RenderEmail" =>
       /\ last.err = FreshRender.err
       /\ last.text = FreshRender.text
       /\ last.html = FreshRender.html

\* An AddSource that succeeded and dropped cached documents.
C3_Witness ==
  /\ last.op = "AddSource" /\ last.err = "none"
  /\ last.evicted > 0
  /\ emailCache = EmptyTmpl

\* C4: a render that returns a body of a format leaves the document of
\* its triple in the cache, and a render whose triple is in the cache
\* leaves that entry as it is, reads no source for that format and, when
\* it succeeds, returns the output of the cached document.
C4_CacheHitStability ==
  [][last'.op = "RenderEmail" =>
       \A f \in Formats :
          LET key == cacheKey(f, last'.arg, LayoutOf(last'.layout))
          IN /\ (f = FormatText /\ last'.text # "") => key \in DOMAIN emailCache'
             /\ (f = FormatHTML /\ last'.html # "") => key \in DOMAIN emailCache'
             /\ key \in DOMAIN emailCache =>
                  /\ key \in DOMAIN emailCache'
                  /\ emailCache'[key] = emailCache[key]
                  /\ ReadsOf(last', f) = <<>>
                  /\ (last'.err = "none" /\ f = FormatText) =>
                        last'.text = output(emailCache[key], "layout", last'.data)
                  /\ (last'.err = "none" /\ f = FormatHTML) =>
                        last'.html = output(emailCache[key], "layout", last'.data)]_vars

\* A successful render served from the cache for both formats.
C4_Witness ==
  /\ last.op = "RenderEmail" /\ last.err = "none"
  /\ last.reads = <<>>
  /\ last.text # "" /\ last.html # ""

\* C6 (as claimed): a failed AddSource leaves both base sets as they were
\* before the call.
C6_RebuildAtomic ==
  [][(last'.op = "AddSource" /\ last'.err # "none") =>
       baseTemplates' = baseTemplates]_vars

\* C7 (as claimed): a failed AddSource leaves the registry as it was
\* before the call.
C7_FailedAddNotRegistered ==
  [][(last'.op = "AddSource" /\ last'.err # "none") => sources' = sources]_vars

OtherFormat(f) == IF f = FormatText THEN FormatHTML ELSE FormatText

\* The document is held by some source in format f and by none in the other.
OnlyFormat(name, f) == Holders(name, f) # {} /\ Holders(name, OtherFormat(f)) = {}

\* The document of format f resolves: a source holds its file and the file
\* of the most recently added such source parses.
Resolves(name, f) == Holders(name, f) # {} /\ SelectedFile(name, f).content.ok

\* The resolved document of format f: the base set with the file parsed in.
FreshDoc(name, f) == ParseTemplate(baseTemplates[f], name, SelectedFile(name, f).content)

RendersTo(name, f, data) ==
  LET x == output(FreshDoc(name, f), "layout", data)
  IN IF f = FormatHTML THEN Process(processor, x).out ELSE x

Renders(name, f, data) ==
  /\ Resolves(name, f)
  /\ canExecute(FreshDoc(name, f), "layout")
  /\ f = FormatHTML => Process(processor, "x").err = "none"
  /\ RendersTo(name, f, data) # ""

C9_NoTemplatesIffNoneResolves ==
  last.op = "RenderEmail" =>
    /\ last.err = "no templates found" <=>
         (\A f \in Formats : ~Resolves(last.arg, f))
    /\ ( /\ \E f \in Formats : Resolves(last.arg, f)
         /\ \A f \in Formats :
              Resolves(last.arg, f) =>
                 /\ canExecute(FreshDoc(last.arg, f), "layout")
                 /\ f = FormatHTML => Process(processor, "x").err = "none" )
       => last.err = "none"

\* C10 (as claimed): a render of a document whose selected file of some
\* format does not parse fails.
C10_DocumentParseFatal ==
  last.op = "RenderEmail" =>
    ( (\E f \in Formats :
          Holders(last.arg, f) # {} /\ ~SelectedFile(last.arg, f).content.ok)
      => last.err # "none" )

\* Caller p is inside a critical section that changes the registry, the
\* base sets, the cache or the function map.
Writing(p) == pc[p] \in {"as_append", "as_clear", "as_load", "cc_clear", "af_set", "ge_resolve"}

\* Caller p is about to look a document up in the cache, or to look it up
\* again and clone the base set.
Observing(p) == pc[p] \in {"ge_check", "ge_resolve"}

\* The shared state is the one some completed sequence of calls leaves:
\* the base sets are the rebuild of the whole registry and every cached
\* document is the one the registry and the base sets resolve to.
Settled ==
  /\ baseTemplates = loadBaseTemplates(sources, baseTemplates[FormatText].funcs).base
  /\ \A a \in ConcRenderArgs, f \in Formats :
       LET key == cacheKey(f, a[1], LayoutOf(a[3]))
       IN key \in DOMAIN emailCache =>
            emailCache[key] = getEmailTemplate(EmptyTmpl, baseTemplates, sources,
                                               a[1], LayoutOf(a[3]), f).tmpl

\* C5: in every interleaving, a caller inside a mutation excludes every
\* other mutation and every lookup, and a caller that looks a document up
\* or clones a base set finds the registry, the base sets and the cache
\* entirely before or entirely after each AddSource, never in between.
C5_NoPartialState ==
  \A p \in Procs :
    /\ Writing(p) =>
         /\ mu.writer = p /\ mu.readers = {}
         /\ \A q \in Procs \ {p} : ~Writing(q) /\ pc[q] # "ge_check"
    /\ pc[p] = "ge_check" => p \in mu.readers /\ mu.writer = 0
    /\ Observing(p) => Settled

\* A caller stands between AddSource's statements while another caller
\* waits for the lock to resolve a document.
C5_Witness ==
  \E p \in Procs, q \in Procs :
    /\ pc[p] \in {"as_clear", "as_load"}
    /\ pc[q] \in {"ge_rlock", "ge_lock"}
    /\ ~Settled

\* A format of the last render's document resolves and cannot execute:
\* its "layout" reaches a template no registered source defines.
FailsToExecute(f) ==
  Resolves(last.arg, f) /\ ~canExecute(FreshDoc(last.arg, f), "layout")

\* C11: a render in which a format resolves and fails to execute returns
\* an error and no body at all, the text failure being reported first;
\* the cache keeps the documents resolved on the way.
C11_ExecuteFailureAtomic ==
  last.op = "RenderEmail" =>
    /\ (\E f \in Formats : FailsToExecute(f)) =>
          (last.err # "none" /\ last.text = "" /\ last.html = "")
    /\ FailsToExecute(FormatText) => last.err = "failed to render text template"
    /\ (FailsToExecute(FormatHTML) /\ ~FailsToExecute(FormatText)) =>
          last.err = "failed to render HTML template"

\* A render whose text resolved and executed to a body and whose HTML
\* failed to execute.
C11_Witness ==
  /\ last.op = "RenderEmail"
  /\ Renders(last.arg, FormatText, last.data)
  /\ FailsToExecute(FormatHTML)
  /\ last.err = "failed to render HTML template"
  /\ last.text = ""

\* A render in which the text alone failed to execute.
C11_WitnessText ==
  /\ last.op = "RenderEmail"
  /\ FailsToExecute(FormatText)
  /\ last.err = "failed to render text template"

\* What executing the HTML document of the last render prints.
ExecutedHTML == output(FreshDoc(last.arg, FormatHTML), "layout", last.data)

\* C12: a render calls the processor at most once, and only with the
\* output of the HTML document, after the text step did not fail and the
\* HTML resolved and executed; it calls it whenever that is so; what the
\* processor returns is the HTML body, and when the processor fails the
\* render fails with no body at all.
C12_ProcessorOnHTMLOnly ==
  last.op = "RenderEmail" =>
    /\ Len(last.given) <= 1
    /\ last.processed = Len(last.given)
    /\ last.given # <<>> <=>
          /\ ~FailsToExecute(FormatText)
          /\ Resolves(last.arg, FormatHTML)
          /\ ~FailsToExecute(FormatHTML)
    /\ last.given # <<>> =>
          /\ last.given = <<ExecutedHTML>>
          /\ IF Process(processor, ExecutedHTML).err # "none"
             THEN last.err = "failed to process HTML" /\ last.text = "" /\ last.html = ""
             ELSE last.err = "none" => last.html = Process(processor, ExecutedHTML).out

\* A render whose text executed to a body other than the HTML output and
\* whose processor then failed on the HTML output.
C12_Witness ==
  /\ last.op = "RenderEmail"
  /\ Renders(last.arg, FormatText, last.data)
  /\ Resolves(last.arg, FormatHTML)
  /\ RendersTo(last.arg, FormatText, last.data) # ExecutedHTML
  /\ last.given = <<ExecutedHTML>>
  /\ last.err = "failed to process HTML"
  /\ last.text = ""

\* errors.As(err, &templateError): some error of the chain is a
\* *templates.TemplateError, the only type that carries a phase and a
\* template identifier.
AsTemplateError(err) ==
  \E i \in 1..Len(errorChain(err)) : errorChain(err)[i] = "*templates.TemplateError"

\* C13 (as claimed): the error of a failed rebuild, of a failed execution
\* and of a failed processor is a template error carrying the phase, and
\* so is the error of a render whose document file does not parse.
C13_PhaseTaggedErrors ==
  /\ (last.op = "AddSource" /\ last.err # "none") => AsTemplateError(last.err)
  /\ last.op = "RenderEmail" =>
       /\ last.err \in {"failed to render text template",
                        "failed to render HTML template",
                        "failed to process HTML"} => AsTemplateError(last.err)
       /\ (\E f \in Formats :
             Holders(last.arg, f) # {} /\ ~SelectedFile(last.arg, f).content.ok)
          => AsTemplateError(last.err)

\* The body of format f the last render returned.
BodyOf(call, f) == IF f = FormatText THEN call.text ELSE call.html

\* The document of the last render executed inside layout id: what the
\* layout prints around the document's "content".
WrappedIn(f, id) ==
  LET x == output(FreshDoc(last.arg, f), id, last.data)
  IN IF f = FormatHTML THEN Process(processor, x).out ELSE x

\* C14 (as claimed): each body a render returns is the document's content
\* inside the layout the layout argument names, when the base set of that
\* format defines it.
C14_LayoutArgSelects ==
  (last.op = "RenderEmail" /\ last.err = "none") =>
    \A f \in Formats :
      LET id == "layout:" \o LayoutOf(last.layout)
      IN (BodyOf(last, f) # "" /\ id \in DOMAIN baseTemplates[f].tmpl) =>
           BodyOf(last, f) = WrappedIn(f, id)

\* C15: the default layout is never empty and is "base" when the
\* configuration gives none; a render with an empty layout argument leaves
\* the cache and returns the error, bodies and reads that the same render
\* with the default layout as its argument leaves and returns.
C15_DefaultLayout ==
  /\ [](defaultLayout # "" /\
        ((last.op = "NewManager" /\ last.layout = "") => defaultLayout = "base"))
  /\ [][(last'.op = "RenderEmail" /\ last'.layout = "") =>
          LET r == renderEmail(emailCache, baseTemplates, sources, processor,
                               defaultLayout, last'.arg, last'.data, defaultLayout)
          IN /\ emailCache' = r.cache
             /\ last' = [r.call EXCEPT !.layout = ""]]_vars

\* A render with an empty layout argument served from the cache entries
\* of the default layout's triple.
C15_Witness ==
  /\ last.op = "RenderEmail" /\ last.layout = "" /\ last.err = "none"
  /\ last.reads = <<>>
  /\ \A f \in Formats : cacheKey(f, last.arg, defaultLayout) \in DOMAIN emailCache

\* The positions of the dots of a path, and the number of its segments.
Dots(path) == {i \in 1..Len(path) : path[i] = "."}
NumSegments(path) == Cardinality(Dots(path)) + 1

\* The k-th segment of a path: the characters after the (k-1)-th dot and
\* before the k-th.
Segment(path, k) ==
  LET before == {i \in Dots(path) : Cardinality({j \in Dots(path) : j <= i}) = k - 1}
      after == {i \in Dots(path) : Cardinality({j \in Dots(path) : j <= i}) = k}
      lo == IF before = {} THEN 1 ELSE (CHOOSE i \in before : TRUE) + 1
      hi == IF after = {} THEN Len(path) ELSE (CHOOSE i \in after : TRUE) - 1
  IN StringOf(SubSeq(path, lo, hi))

\* The value a theme stores under the first k segments of a path: nil as
\* soon as a segment is absent or found below something that is no map.
RECURSIVE StoredAt(_, _, _)
StoredAt(theme, path, k) ==
  IF k = 0 THEN MapValue(theme)
  ELSE LET parent == StoredAt(theme, path, k - 1)
       IN IF parent.kind = "map" /\ Segment(path, k) \in DOMAIN parent.m
          THEN parent.m[Segment(path, k)]
          ELSE NilValue

Chars(str) ==
  CASE str = "" -> <<>>
    [] str = "a.b" -> <<"a", ".", "b">>
    [] str = "a.c" -> <<"a", ".", "c">>
    [] str = "x.y" -> <<"x", ".", "y">>

\* C16: GetThemeValue returns what the theme stores at the path's last
\* segment below its other segments, and nil for the empty path, for a
\* path one of whose segments is absent and for one that goes on below a
\* value that is no map; in {a: {b: "v"}}, "a.b" is "v" and "a.c" and
\* "x.y" are nil.
C16_ThemeLookup ==
  last.op = "GetThemeValue" =>
    /\ last.value = (IF last.path = <<>> THEN NilValue
                     ELSE StoredAt(last.theme, last.path, NumSegments(last.path)))
    /\ last.path = <<>> => last.value = NilValue
    /\ (\E k \in 1..NumSegments(last.path) :
           StoredAt(last.theme, last.path, k) = NilValue) => last.value = NilValue
    /\ (\E k \in 1..(NumSegments(last.path) - 1) :
           StoredAt(last.theme, last.path, k).kind # "map") => last.value = NilValue
    /\ last.theme = ExampleTheme =>
          /\ last.path = Chars("a.b") => last.value = Leaf("v")
          /\ last.path \in {Chars("a.c"), Chars("x.y"), Chars("")} => last.value = NilValue

\* A lookup that walked two maps down to a leaf.
C16_Witness ==
  /\ last.op = "GetThemeValue"
  /\ NumSegments(last.path) = 3
  /\ last.value.kind = "leaf"

\* A lookup that met a leaf where the path goes on.
C16_WitnessLeaf ==
  /\ last.op = "GetThemeValue"
  /\ NumSegments(last.path) > 1
  /\ StoredAt(last.theme, last.path, 1).kind = "leaf"
  /\ last.value = NilValue

\* The role tag of a root directory; none for any other directory.
RoleTag(rootDir) ==
  CASE rootDir = "layouts" -> "layout:"
    [] rootDir = "components" -> "component:"
    [] rootDir = "partials" -> "partial:"
    [] OTHER -> ""

\* The path below its root ends with the extension of format f.
EndsWith(rel, f) ==
  /\ Len(rel) >= 2
  /\ SubSeq(rel, Len(rel) - 1, Len(rel)) = (IF f = FormatHTML THEN <<".", "html">>
                                             ELSE <<".", "txt">>)

\* C17: the name of a file is its path below the root directory without
\* its extension (what follows the last dot of the last element), the
\* identifier is the role tag followed by that name, or the bare name for
\* a root that is no role; a file of a format has the name that, with the
\* format's extension put back below the root, is the file's path, so
\* two files of one root and one format never share an identifier.
C17_CanonicalNaming ==
  last.op = "templateName" =>
    LET ext == SubSeq(last.rel, Len(last.name) + 1, Len(last.rel))
    IN /\ last.name \o ext = last.rel
       /\ ext # <<>> => (ext[1] = "." /\ \A i \in 2..Len(ext) : ext[i] \notin {".", "/"})
       /\ ext = <<>> =>
            \A i \in 1..Len(last.rel) :
               last.rel[i] = "." => \E j \in (i + 1)..Len(last.rel) : last.rel[j] = "/"
       /\ last.id = RoleTag(last.rootDir) \o StringOf(last.name)
       /\ \A f \in Formats :
            EndsWith(last.rel, f) <=> last.format = f
       /\ \A f \in Formats :
            last.format = f =>
              last.filePath = <<last.rootDir, "/">> \o last.name
                                \o (IF f = FormatHTML THEN <<".", "html">> ELSE <<".", "txt">>)

\* A template file in a subdirectory of the layouts, named after its path.
C17_Witness ==
  /\ last.op = "templateName"
  /\ last.rootDir = LayoutsDir
  /\ last.rel = <<"a", "/", "a", ".", "html">>
  /\ last.format = FormatHTML
  /\ last.id = "layout:a/a"

\* A file with two dots in its name: only the last extension is removed.
C17_WitnessDots ==
  /\ last.op = "templateName"
  /\ last.rel = <<"a", ".", "txt", ".", "html">>
  /\ last.id = "a.txt"

\* The identifiers the files of a role's directory are named with.
RoleIds(rootDir) ==
  UNION {{templateName(file.dir, file) : file \in {g \in Range(s.FS) : g.dir = rootDir}} :
         s \in RegistryPool \cup {BuiltinSource}}

\* The templates of a set under the identifiers ids.
Restrict(set, ids) == [id \in DOMAIN set.tmpl \cap ids |-> set.tmpl[id]]

\* C18: an AddSource after which every registered file of a role parses
\* returns no error, whatever directories the new source lacks, and for
\* each of layouts/, components/ and partials/ that it lacks the base sets
\* bind the identifiers of that role as they did before the call.
C18_MissingRoleTolerated ==
  [][(last'.op = "AddSource" /\ AllLoaded') =>
       /\ last'.err = "none"
       /\ \A rootDir \in Roles :
            ~HasDir(sources'[Len(sources')], rootDir) =>
               \A f \in Formats :
                  Restrict(baseTemplates'[f], RoleIds(rootDir))
                    = Restrict(baseTemplates[f], RoleIds(rootDir))]_vars

\* A source without layouts/ and partials/ was added and its component
\* replaced one of an earlier source.
C18_Witness ==
  /\ last.op = "AddSource" /\ last.err = "none"
  /\ LET added == sources[Len(sources)]
     IN /\ ~HasDir(added, LayoutsDir) /\ ~HasDir(added, PartialsDir)
        /\ HasDir(added, ComponentsDir)
        /\ baseTemplates[FormatHTML].tmpl["component:footer"].text = "<xfoot>"
        /\ "layout:base" \in DOMAIN baseTemplates[FormatHTML].tmpl
        /\ "partial:sig" \in DOMAIN baseTemplates[FormatHTML].tmpl

\* A source without any directory was added.
C18_WitnessEmpty ==
  /\ last.op = "AddSource" /\ last.err = "none"
  /\ sources[Len(sources)].FS = <<>>
  /\ Len(sources) > 2

\* The extension the files of a format end in.
Ending(f) == IF f = FormatHTML THEN ".html" ELSE ".txt"

\* The registered files of the roles, and those that end in .html or .txt.
RoleFiles == UNION {{file \in Range(sources[i].FS) : file.dir \in Roles} : i \in 1..Len(sources)}
TemplateFiles == {file \in RoleFiles : file.ext \in {".html", ".txt"}}

\* C19: when every registered layout, component and partial ending in
\* .html or .txt parses, AddSource returns no error whatever other files
\* the sources hold, and each base set binds exactly the identifiers of
\* the files ending in its format's extension plus their {{define}}
\* blocks; a cached document of a format holds the body of a file ending
\* in that format's extension.
C19_FormatRouting ==
  /\ (\A file \in TemplateFiles : file.content.ok) =>
       /\ last.op = "AddSource" => last.err = "none"
       /\ \A f \in Formats :
            DOMAIN baseTemplates[f].tmpl =
              UNION {{templateName(file.dir, file)} \cup DOMAIN file.content.defs :
                     file \in {g \in TemplateFiles : g.ext = Ending(f)}}
  /\ \A a \in RenderArgs, f \in Formats :
       LET key == cacheKey(f, a[1], LayoutOf(a[3]))
       IN key \in DOMAIN emailCache =>
            \E i \in 1..Len(sources) : \E file \in Range(sources[i].FS) :
               /\ file.dir = EmailsDir /\ file.rel = a[1] /\ file.ext = Ending(f)
               /\ emailCache[key].tmpl[a[1]] = file.content.body
               /\ \A n \in DOMAIN file.content.defs :
                     emailCache[key].tmpl[n] = file.content.defs[n]

\* A render of a document held as .html and as .txt with different
\* contents, after the rebuild passed over a file that is neither and
\* gave a layout a body in each format.
C19_Witness ==
  /\ last.op = "RenderEmail" /\ last.err = "none"
  /\ last.text # "" /\ last.html # "" /\ last.text # last.html
  /\ \E file \in RoleFiles : file.ext \notin {".html", ".txt"}
  /\ "layout:base" \in DOMAIN baseTemplates[FormatHTML].tmpl
  /\ "layout:base" \in DOMAIN baseTemplates[FormatText].tmpl
  /\ baseTemplates[FormatHTML].tmpl["layout:base"] # baseTemplates[FormatText].tmpl["layout:base"]
  /\ "layout:notes" \notin DOMAIN baseTemplates[FormatHTML].tmpl

\* C20 (as claimed): when AddFunc returns, the function is bound in both
\* base sets, and a render of a document whose files call registered
\* functions only, and which renders once parsed, returns its bodies.
C20_FuncsUsable ==
  /\ last.op = "AddFunc" => \A f \in Formats : last.arg \in DOMAIN baseTemplates[f].funcs
  /\ last.op = "RenderEmail" =>
       \A f \in Formats :
          ( /\ Renders(last.arg, f, last.data)
            /\ Renders(last.arg, OtherFormat(f), last.data)
            /\ SelectedFile(last.arg, f).content.uses \subseteq DOMAIN funcMap
            /\ SelectedFile(last.arg, OtherFormat(f)).content.uses \subseteq DOMAIN funcMap )
          => (last.err = "none" /\ BodyOf(last, f) = RendersTo(last.arg, f, last.data))

\* C20 (the render alone): a render of a document whose files call
\* registered functions only, and which renders once parsed, returns its
\* bodies.
C20_RenderAfterAddFunc ==
  last.op = "RenderEmail" =>
    \A f \in Formats :
       ( /\ Renders(last.arg, f, last.data)
         /\ Renders(last.arg, OtherFormat(f), last.data)
         /\ SelectedFile(last.arg, f).content.uses \subseteq DOMAIN funcMap
         /\ SelectedFile(last.arg, OtherFormat(f)).content.uses \subseteq DOMAIN funcMap )
       => last.err = "none"

\* A source added after AddFunc rebinds the base sets: the document that
\* calls the function renders.
C20_AfterAddSource ==
  /\ last.op = "RenderEmail" /\ last.arg = "stamp" /\ last.err = "none"
  /\ last.text # "" /\ last.html # ""

\* C21: AddFunc and AddFuncs return no error, and afterwards the
\* function map holds each name they were given with the function given,
\* whether the name was new, registered before, a default function or
\* theme, and every other name with the function it had.
C21_FuncCollideReplace ==
  [][last'.op \in {"AddFunc", "AddFuncs"} =>
       /\ last'.err = "none"
       /\ DOMAIN funcMap' = DOMAIN funcMap \cup DOMAIN last'.funcs
       /\ \A n \in DOMAIN funcMap' :
            funcMap'[n] = (IF n \in DOMAIN last'.funcs THEN last'.funcs[n] ELSE funcMap[n])]_vars

\* AddFunc replaced the theme function while a registered function stayed.
C21_Witness ==
  /\ last.op = "AddFunc" /\ last.arg = "theme"
  /\ funcMap["theme"] = last.funcs["theme"]
  /\ funcMap["theme"] # themeFuncs["theme"]
  /\ "fmtDate" \in DOMAIN funcMap
  /\ funcMap["dict"] = mapFuncs["dict"]

\* AddFuncs replaced a registered function and a default one.
C21_WitnessAddFuncs ==
  /\ last.op = "AddFuncs" /\ last.funcs # NoDefs
  /\ funcMap["last"] # mapFuncs["last"]
  /\ funcMap["theme"] # themeFuncs["theme"]

\* C22 (as claimed): after construction the function map holds every
\* function of the configuration's FuncMap, and so do the base sets the
\* manager loaded.
C22_ConfigFuncsMerged ==
  last.op = "NewManager" =>
    \A n \in DOMAIN last.funcs :
       /\ n \in DOMAIN funcMap /\ funcMap[n] = last.funcs[n]
       /\ \A f \in Formats :
            n \in DOMAIN baseTemplates[f].funcs /\ baseTemplates[f].funcs[n] = last.funcs[n]

\* C23: every step leaves the registry as it was or appends one source at
\* its end, and only AddSource appends: the sources already present keep
\* their positions, and RenderEmail, ClearCache and AddFunc leave the
\* registry unchanged.
C23_RegistryAppendOnly ==
  [][/\ \/ sources' = sources
        \/ /\ last'.op = "AddSource"
           /\ Len(sources') = Len(sources) + 1
           /\ SubSeq(sources', 1, Len(sources)) = sources
           /\ sources'[Len(sources')].Name = last'.arg
     /\ last'.op \in {"RenderEmail", "ClearCache", "AddFunc", "AddFuncs"}
          => sources' = sources]_vars

\* AddSource appended to a registry that already held an added source.
C23_Witness ==
  /\ last.op = "AddSource" /\ Len(sources) >= 3
  /\ sources[1] = BuiltinSource
  /\ sources[Len(sources)].Name = last.arg
  /\ sources[Len(sources)] # sources[Len(sources) - 1]

\* The outcome of a render from the state with cache c.
RenderOutcome(c, a) ==
  LET r == renderEmail(c, baseTemplates, sources, processor, defaultLayout,
                       a[1], a[2], a[3]).call
  IN [err |-> r.err, text |-> r.text, html |-> r.html]

\* C24: ClearCache empties the cache and leaves the registry, both base
\* sets and the function map as they were; a render of any document and
\* data after it returns the error and bodies the same render returned
\* before it.
C24_ClearCacheFrame ==
  [][last'.op = "ClearCache" =>
       /\ emailCache' = EmptyTmpl
       /\ sources' = sources
       /\ baseTemplates' = baseTemplates
       /\ funcMap' = funcMap
       /\ \A a \in RenderArgs : RenderOutcome(emailCache', a) = RenderOutcome(emailCache, a)]_vars

\* ClearCache dropped cached documents, and a document renders from the
\* emptied cache.
C24_Witness ==
  /\ last.op = "ClearCache" /\ last.evicted > 0
  /\ emailCache = EmptyTmpl
  /\ \E a \in RenderArgs :
       /\ RenderOutcome(emailCache, a).err = "none"
       /\ RenderOutcome(emailCache, a).html # ""

\* Whether AddSource of the source succeeds on a manager as NewManager
\* builds it.
Loadable(source) ==
  \A i \in 1..Len(source.FS) :
     LET f == source.FS[i]
     IN (f.dir \in {LayoutsDir, ComponentsDir, PartialsDir} /\ f.ext \in {".html", ".txt"})
          => (f.content.ok /\ f.content.uses \subseteq DOMAIN DefaultFuncMap \cup {"theme"})

\* Whether rendering the message's template fails in the current state.
TemplateFails(msg) ==
  /\ msg.Template # ""
  /\ RenderOutcome(emailCache, <<msg.Template, IF msg.Data = "nil" THEN "nil" ELSE "full",
                                 msg.Layout>>).err # "none"

\* C25 (the states of a Send): the provider has not been called while
\* templates are processed; when the Send has returned and rendering the
\* message's template fails, the provider was never called and Send
\* returned the processing error; otherwise the provider was called once
\* and Send returned what it returned; without a template nothing was
\* rendered and the provider got the caller's bodies and subject.
C25_SendState ==
  last.op = "Send" =>
    /\ last.at \in {"processTemplates", "provider"} => last.sent = <<>>
    /\ last.at = "processTemplates" => last.rendered = <<>>
    /\ last.at = "done" =>
         /\ IF TemplateFails(last.given)
            THEN last.sent = <<>> /\ last.err = "failed to process templates"
            ELSE Len(last.sent) = 1 /\ last.err = last.outcome
         /\ last.given.Template = "" =>
              /\ last.rendered = <<>>
              /\ Len(last.sent) = 1
              /\ last.sent[1].TextBody = last.given.TextBody
              /\ last.sent[1].HTMLBody = last.given.HTMLBody
              /\ last.sent[1].Subject = last.given.Subject
         /\ last.given.Template # "" => Len(last.rendered) = 1

\* C25 (the steps of a Send): the provider is called only by the step
\* that follows a processing that returned no error, and no rendering
\* happens once the provider has been called.
C25_SendStep ==
  /\ last'.op = "Send" /\ last'.sent # <<>> /\ last.sent = <<>>
       => (last.at = "provider" /\ ~TemplateFails(last.given))
  /\ last.op = "Send" /\ last.sent # <<>> /\ last'.sent = last.sent
       => last'.rendered = last.rendered

\* C25: Mailpen.Send processes the templates before it calls the
\* provider; a failed processing ends Send with its error and without a
\* call of the provider; otherwise the provider is called exactly once and
\* its error is Send's; a message without a template is not rendered and
\* keeps its bodies.
C25_SendOrdering == []C25_SendState /\ [][C25_SendStep]_vars

\* A Send rendered the template into the message and the provider was
\* called once with the rendered bodies, its error returned.
C25_Witness ==
  /\ last.op = "Send" /\ last.at = "done"
  /\ last.given.Template = "welcome" /\ last.given.TextBody = "plain"
  /\ Len(last.rendered) = 1 /\ Len(last.sent) = 1
  /\ last.sent[1].HTMLBody = last.rendered[1].html
  /\ last.sent[1].HTMLBody # last.given.HTMLBody
  /\ last.err = "provider failed"

\* A Send whose processing failed returned without calling the provider.
C25_WitnessFailed ==
  /\ last.op = "Send" /\ last.at = "done"
  /\ last.err = "failed to process templates" /\ last.sent = <<>>
  /\ Len(last.rendered) = 1

\* A Send without a template handed the caller's bodies to the provider.
C25_WitnessPassThrough ==
  /\ last.op = "Send" /\ last.at = "done" /\ last.given.Template = ""
  /\ last.given.HTMLBody # "" /\ Len(last.sent) = 1
  /\ last.sent[1].HTMLBody = last.given.HTMLBody

\* C26: mailpen.New with a nil provider returns "provider is required"
\* and with a provider and a nil config "config is required", in both
\* cases without an instance; with a provider, a config whose sources all
\* load and options that return no error it returns an instance and no
\* error.
C26_NewValidates ==
  last.op = "New" =>
    /\ last.provider = "nil" => (last.err = "provider is required" /\ ~last.mp)
    /\ (last.provider # "nil" /\ last.config.ptr = "nil")
         => (last.err = "config is required" /\ ~last.mp)
    /\ ( /\ last.provider # "nil" /\ last.config.ptr # "nil"
         /\ \A i \in 1..Len(last.config.Sources) : Loadable(last.config.Sources[i])
         /\ \A i \in 1..Len(last.opts) : last.opts[i] = "ok" )
         => (last.err = "none" /\ last.mp)

\* New returned an instance for a configuration with two sources.
C26_Witness ==
  /\ last.op = "New" /\ last.mp /\ last.err = "none"
  /\ last.provider = "mock" /\ Len(last.config.Sources) = 2

\* New refused a nil provider given with a configuration.
C26_WitnessNilProvider ==
  /\ last.op = "New" /\ ~last.mp /\ last.err = "provider is required"
  /\ last.config.ptr = "set"

\* New refused a nil configuration.
C26_WitnessNilConfig ==
  /\ last.op = "New" /\ ~last.mp /\ last.err = "config is required"

\* The calls of DialAndSend made so far.
Dials == SelectSeq(last.events, LAMBDA e : e.kind = "DialAndSend")

\* C27: with RetryCount = N >= 1, sendWithRetry makes no call after a
\* DialAndSend that succeeded and then returns nil; when every attempt
\* failed it has made exactly N of them and returns "failed to send email
\* after N attempts" wrapping the error of the last; every sleep follows a
\* failed attempt and is followed by the next attempt, so that none comes
\* after the last attempt.
C27_RetryLoop ==
  (last.op = "sendWithRetry" /\ last.RetryCount >= 1) =>
    /\ Len(Dials) <= last.RetryCount
    /\ \A j \in 1..Len(Dials) - 1 : Dials[j].result # "none"
    /\ \A j \in 1..Len(last.events) :
         last.events[j].kind = "Sleep" =>
           /\ j > 1 /\ last.events[j - 1].kind = "DialAndSend"
           /\ last.events[j - 1].result # "none"
           /\ j < Len(last.events) => last.events[j + 1].kind = "DialAndSend"
           /\ Len(SelectSeq(SubSeq(last.events, 1, j), LAMBDA e : e.kind = "DialAndSend"))
                < last.RetryCount
    /\ \A j \in 1..Len(last.events) - 1 :
         (last.events[j].kind = "DialAndSend" /\ last.events[j + 1].kind = "DialAndSend")
           => FALSE
    /\ last.at = "returned" =>
         /\ Len(Dials) >= 1
         /\ last.events[Len(last.events)].kind = "DialAndSend"
         /\ IF Dials[Len(Dials)].result = "none"
            THEN last.err = "none"
            ELSE /\ Len(Dials) = last.RetryCount
                 /\ last.err = "failed to send email after %d attempts"
                 /\ last.n = last.RetryCount
                 /\ last.cause = Dials[Len(Dials)].result

\* Every one of three attempts failed, with different errors, and the
\* error of the third is returned.
C27_Witness ==
  /\ last.op = "sendWithRetry" /\ last.at = "returned" /\ last.RetryCount = 3
  /\ Len(Dials) = 3 /\ Len(last.events) = 5
  /\ Dials[1].result # Dials[3].result
  /\ last.cause = Dials[3].result /\ last.n = 3

\* The second attempt succeeded and no other followed.
C27_WitnessSuccess ==
  /\ last.op = "sendWithRetry" /\ last.at = "returned" /\ last.RetryCount = 3
  /\ Len(Dials) = 2 /\ last.err = "none"

\* The addresses the calls of a method gave, in the order of the calls.
RECURSIVE AddressesGiven(_, _)
AddressesGiven(calls, method) ==
  IF calls = <<>> THEN <<>>
  ELSE (IF Head(calls).method = method THEN Head(calls).addresses ELSE <<>>)
         \o AddressesGiven(Tail(calls), method)

\* The value the last call of a method gave, empty when it was not called.
RECURSIVE ValueGiven(_, _)
ValueGiven(calls, method) ==
  IF calls = <<>> THEN ""
  ELSE IF calls[Len(calls)].method = method THEN calls[Len(calls)].value
  ELSE ValueGiven(SubSeq(calls, 1, Len(calls) - 1), method)

\* C28: Build returns "email must have at least one recipient" and no
\* message exactly when the To calls gave no address; otherwise it returns
\* no error and the message whose To, Cc and Bcc are the addresses of the
\* To, Cc and Bcc calls in call order and whose other fields are the
\* values last set, empty when never set.
C28_BuilderBuild ==
  last.op = "Build" =>
    /\ (last.built.err = "email must have at least one recipient" /\ last.built.nil)
         <=> AddressesGiven(last.calls, "To") = <<>>
    /\ AddressesGiven(last.calls, "To") # <<>> =>
         /\ last.built.err = "none" /\ ~last.built.nil
         /\ last.built.msg.To = AddressesGiven(last.calls, "To")
         /\ last.built.msg.Cc = AddressesGiven(last.calls, "Cc")
         /\ last.built.msg.Bcc = AddressesGiven(last.calls, "Bcc")
         /\ last.built.msg.From = ValueGiven(last.calls, "From")
         /\ last.built.msg.ReplyTo = ValueGiven(last.calls, "ReplyTo")
         /\ last.built.msg.Subject = ValueGiven(last.calls, "Subject")

\* Two To calls and a Cc call were built into a message with the
\* recipients in call order.
C28_Witness ==
  /\ last.op = "Build" /\ ~last.built.nil /\ last.built.err = "none"
  /\ last.built.msg.To = <<"b@x", "a@x", "a@x">>
  /\ last.built.msg.Cc # <<>>

\* Build refused a message that was given Cc addresses and To calls
\* without an address.
C28_WitnessNoRecipient ==
  /\ last.op = "Build" /\ last.built.nil
  /\ last.built.err = "email must have at least one recipient"
  /\ AddressesGiven(last.calls, "Cc") # <<>>
  /\ \E i \in 1..Len(last.calls) : last.calls[i].method = "To"

\* C29: the keys of td.Merge(data) are those of td and of data; a key of
\* data has data's value, whatever td held (a nested map is replaced
\* whole), every other key td's value; td and data are as they were, and
\* with an empty data the result equals td.
C29_MergeUnion ==
  last.op = "Merge" =>
    /\ DOMAIN last.merged = DOMAIN last.given.td \cup DOMAIN last.given.data
    /\ \A k \in DOMAIN last.merged :
         last.merged[k] = (IF k \in DOMAIN last.given.data THEN last.given.data[k]
                           ELSE last.given.td[k])
    /\ last.td = last.given.td
    /\ last.data = last.given.data
    /\ DOMAIN last.given.data = {} => last.merged = last.given.td

\* Merge replaced a nested map of the receiver by the nested map of the
\* argument, which lacks one of its keys, and kept another key.
C29_Witness ==
  /\ last.op = "Merge"
  /\ "links" \in DOMAIN last.given.td /\ "links" \in DOMAIN last.given.data
  /\ last.given.td["links"].type = "map[string]any"
  /\ last.given.data["links"].type = "map[string]any"
  /\ DOMAIN last.given.td["links"].entries = {"home", "about"}
  /\ DOMAIN last.merged["links"].entries = {"about"}
  /\ "key" \in DOMAIN last.given.td /\ "key" \notin DOMAIN last.given.data
  /\ last.merged["key"] = last.given.td["key"]

\* Merge with an empty argument returned the receiver's entries.
C29_WitnessEmpty ==
  /\ last.op = "Merge" /\ DOMAIN last.given.data = {}
  /\ DOMAIN last.given.td = DataKeys /\ last.merged = last.given.td

\* Whether a value is a map.
IsMap(v) == v.type \in {"map[string]any", "map[string]string"}

\* C30 (as claimed): in td.MergeKeys(data), a key whose value is a map
\* in td and in data holds the entries of both maps, data's winning; any
\* other key of data holds data's value, a key of td alone td's value; td
\* is as it was.
C30_MergeKeysOneLevel ==
  last.op = "MergeKeys" =>
    /\ DOMAIN last.merged = DOMAIN last.given.td \cup DOMAIN last.given.data
    /\ \A k \in DOMAIN last.merged :
         IF k \notin DOMAIN last.given.data THEN last.merged[k] = last.given.td[k]
         ELSE IF k \in DOMAIN last.given.td /\ IsMap(last.given.td[k])
                   /\ IsMap(last.given.data[k])
         THEN /\ IsMap(last.merged[k])
              /\ last.merged[k].entries =
                   last.given.data[k].entries @@ last.given.td[k].entries
         ELSE last.merged[k] = last.given.data[k]
    /\ last.td = last.given.td

\* What holds: the maps are united when both values are map[string]any,
\* and in every other case data's value replaces the receiver's.
C30_MergeKeysAnyMaps ==
  last.op = "MergeKeys" =>
    /\ DOMAIN last.merged = DOMAIN last.given.td \cup DOMAIN last.given.data
    /\ \A k \in DOMAIN last.merged :
         IF k \notin DOMAIN last.given.data THEN last.merged[k] = last.given.td[k]
         ELSE IF k \in DOMAIN last.given.td
                   /\ last.given.td[k].type = "map[string]any"
                   /\ last.given.data[k].type = "map[string]any"
         THEN last.merged[k] =
                AnyMap(last.given.data[k].entries @@ last.given.td[k].entries)
         ELSE last.merged[k] = last.given.data[k]
    /\ last.td = last.given.td

\* The triples the renders of KeyRenderArgs resolve, with the layout a
\* render resolves under.
KeyTriples ==
  { <<f, a[1], effectiveLayout(a[3], DefaultLayoutName)>> : f \in Formats, a \in KeyRenderArgs }

\* C31 (as claimed): a render returns the error and bodies its own
\* document renders to from an empty cache, whatever the cache holds from
\* the resolves of other triples (format, name, layout).
C31_CacheKeyInjective ==
  last.op = "RenderEmail" =>
    LET fresh == RenderOutcome(EmptyTmpl, <<last.arg, last.data, last.layout>>)
    IN last.err = fresh.err /\ last.text = fresh.text /\ last.html = fresh.html

\* The keys alone: distinct triples have distinct cache keys.
C31_KeysDistinct ==
  \A t, u \in KeyTriples :
     t # u => cacheKey(t[1], t[2], t[3]) # cacheKey(u[1], u[2], u[3])

\* The render alone: a render of the document a never returns the body of
\* the document a:b.
C31_OwnDocument ==
  (last.op = "RenderEmail" /\ last.arg = "a" /\ last.err = "none") => last.html = "<a>"

\* The bodies a render of the caller's document returns when it runs
\* alone on the registry of the first k sources.
SnapshotRender(p, k) ==
  LET srcs == SubSeq(sources, 1, k)
  IN renderEmail(EmptyTmpl, loadBaseTemplates(srcs, funcMap).base, srcs, processor,
                 defaultLayout, loc[p].name, loc[p].data, loc[p].layout).call

\* C32 (as claimed): the bodies a RenderEmail call is about to return are
\* the text and the HTML of one registry state: some registry the manager
\* went through renders the document to exactly this pair.
C32_RenderSnapshot ==
  \A p \in Procs :
     (pc[p] = "re_return" /\ loc[p].err = "none") =>
       \E k \in 1..Len(sources) :
          \E r \in {SnapshotRender(p, k)} :
             r.err = "none" /\ r.text = loc[p].text /\ r.html = loc[p].html

\* The key caller p is resolving.
KeyOf(p) == cacheKey(loc[p].format, loc[p].name, loc[p].layout)

\* What getEmailTemplate does for caller p in the present state.
ResolveOf(p) ==
  getEmailTemplate(emailCache, baseTemplates, sources,
                   loc[p].name, loc[p].layout, loc[p].format)

\* A caller under the write lock whose key is in the cache gets the stored
\* entry: no source is read, nothing is stored.
C33_ReCheck ==
  \A p \in Procs :
     (pc[p] = "ge_resolve" /\ KeyOf(p) \in DOMAIN emailCache) =>
        \E r \in {ResolveOf(p)} :
           r.reads = <<>> /\ r.err = "none" /\ r.tmpl = emailCache[KeyOf(p)]
           /\ r.cache = emailCache

\* No step changes an entry that stays in the cache.
C33_NeverOverwritten ==
  \A k \in DOMAIN emailCache \cap DOMAIN emailCache' : emailCache'[k] = emailCache[k]

\* A caller that leaves getEmailTemplate with a document holds the entry
\* stored under its key.
C33_StoredEntryReturned ==
  \A p \in Procs :
     (pc[p] \in {"ge_check", "ge_resolve"} /\ pc'[p] = "re_exec") =>
        KeyOf(p) \in DOMAIN emailCache' /\ loc'[p].tmpl = emailCache'[KeyOf(p)]

\* C33: callers that miss the cache for one triple at the same time resolve
\* and store the document once: the later ones find the entry in the second
\* lookup under the write lock and return it, every caller leaves with the
\* entry stored under the key, and an entry is never overwritten while it
\* stays in the cache.
C33_SingleResolution ==
  /\ []C33_ReCheck
  /\ [][C33_NeverOverwritten /\ C33_StoredEntryReturned]_vars

\* Two callers missed the same key; one has stored the document and the
\* other now holds the write lock.
C33_Witness ==
  \E p \in Procs : \E q \in Procs \ {p} :
     /\ pc[p] = "ge_resolve" /\ KeyOf(p) \in DOMAIN emailCache
     /\ pc[q] = "re_exec" /\ KeyOf(q) = KeyOf(p)
     /\ loc[q].tmpl = emailCache[KeyOf(p)]

\* The triples (format, name, layout) the interleaved renders resolve.
ConcTriples ==
  { <<f, a[1], effectiveLayout(a[3], defaultLayout)>> : f \in Formats, a \in ConcRenderArgs }

\* The document a resolve of triple t gives against the registry and base
\* sets of the present state, from an empty cache.
FreshResolve(t) ==
  getEmailTemplateNoCache(EmptyTmpl, baseTemplates, sources, t[2], t[3], t[1])

\* A caller stands inside the critical section of AddSource.
AddingSource == \E p \in Procs : pc[p] \in {"as_append", "as_clear", "as_load"}

\* C34: outside the critical section of an AddSource, every entry of the
\* cache is the document a resolve of its triple gives against the registry
\* and the base sets as they are now; no resolve begun before an AddSource
\* leaves its result in the cache after it.
C34_NoStaleEntries ==
  ~AddingSource =>
    \A k \in DOMAIN emailCache :
       \E t \in ConcTriples :
          /\ cacheKey(t[1], t[2], t[3]) = k
          /\ \E r \in {FreshResolve(t)} : r.err = "none" /\ r.tmpl = emailCache[k]

\* A source has been added to the registry of construction, no AddSource
\* is under way, and a caller holds the document it resolved, which is the
\* entry of the cache.
C34_Witness ==
  /\ ~AddingSource
  /\ Len(sources) > 2
  /\ \E p \in Procs :
        /\ pc[p] = "re_exec"
        /\ KeyOf(p) \in DOMAIN emailCache
        /\ emailCache[KeyOf(p)] = loc[p].tmpl
        /\ \E q \in Procs \ {p} : pc[q] = "idle"

\* The labels at which a caller asks for the write lock.
WriteLockLabels == {"as_lock", "as_wait", "cc_lock", "cc_wait", "af_lock", "af_wait",
                    "ge_lock", "ge_wait"}

\* No caller asks for the write lock while it holds the read lock, and a
\* caller outside every call holds no lock.
C35_LocksReleased ==
  \A p \in Procs :
     /\ pc[p] \in WriteLockLabels => p \notin mu.readers
     /\ pc[p] \in {"idle", "re_return", "re_exec"} => (p \notin mu.readers /\ mu.writer # p)

\* C35: under fair scheduling every call of RenderEmail, AddSource,
\* ClearCache and AddFunc returns, with a result or with an error, whatever
\* the other callers do; no caller holds the read lock while it asks for the
\* write lock, and no lock is held by a caller whose call has returned.
C35_CallsReturn ==
  /\ []C35_LocksReleased
  /\ \A p \in Procs : (pc[p] # "idle") ~> (pc[p] = "idle")

\* A caller waits in getEmailTemplate for the write lock, which another
\* caller holds inside AddSource.
C35_Witness ==
  \E p \in Procs : \E q \in Procs \ {p} :
     /\ pc[p] = "ge_lock"
     /\ pc[q] = "as_clear" /\ mu.writer = q

\* The names a document file brings into a set: the document names of the
\* registry and the two blocks a document defines.
DocumentNames ==
  {"layout", "content"} \cup
  UNION { { sources[i].FS[j].rel : j \in { n \in 1..Len(sources[i].FS) :
                                             sources[i].FS[n].dir = EmailsDir } } :
          i \in 1..Len(sources) }

\* The triples (format, name, layout) of the renders of RenderArgs.
RenderTriples ==
  { <<f, a[1], effectiveLayout(a[3], defaultLayout)>> : f \in Formats, a \in RenderArgs }

\* The base sets hold no name of a document, and every entry of the cache
\* is the clone of its format's base set with its own document parsed in,
\* nothing of another document.
C36_BaseHoldsNoDocument ==
  /\ \A f \in Formats : DOMAIN baseTemplates[f].tmpl \cap DocumentNames = {}
  /\ \A k \in DOMAIN emailCache :
        \E t \in RenderTriples :
           /\ cacheKey(t[1], t[2], t[3]) = k
           /\ \E r \in {getEmailTemplateNoCache(EmptyTmpl, baseTemplates, sources,
                                                t[2], t[3], t[1])} :
                 /\ r.err = "none"
                 /\ r.tmpl = emailCache[k]
                 /\ (DOMAIN r.tmpl.tmpl \ DOMAIN baseTemplates[t[1]].tmpl)
                      \subseteq {t[2], "layout", "content"}

\* C36: a resolve changes neither the base sets nor the registry; the
\* document is parsed into a clone made for that resolve, so the base sets
\* never hold a document and a resolved document holds nothing of a
\* document resolved before it.
C36_CloneIsolation ==
  /\ []C36_BaseHoldsNoDocument
  /\ [][last'.op = "RenderEmail" =>
          (baseTemplates' = baseTemplates /\ sources' = sources)]_vars

\* Two documents are resolved and in the cache together, the second by the
\* render that just returned.
C36_Witness ==
  /\ last.op = "RenderEmail"
  /\ last.err = "none"
  /\ \E t \in RenderTriples : \E u \in RenderTriples :
        /\ t[2] # u[2]
        /\ u[2] = last.arg
        /\ cacheKey(t[1], t[2], t[3]) \in DOMAIN emailCache
        /\ cacheKey(u[1], u[2], u[3]) \in DOMAIN emailCache

\* A resolve that fails in the present state leaves the cache as it is, has
\* read the sources, and finds nothing stored under its key.
C37_FailuresNotCached ==
  \A t \in RenderTriples :
     \E r \in {getEmailTemplate(emailCache, baseTemplates, sources, t[2], t[3], t[1])} :
        r.err # "none" =>
          /\ r.cache = emailCache
          /\ cacheKey(t[1], t[2], t[3]) \notin DOMAIN emailCache
          /\ r.reads # <<>>

\* A render keeps every entry of the cache as it was and adds entries only
\* for the formats of its own document that resolve.
C37_RenderKeepsEntries ==
  last'.op = "RenderEmail" =>
    /\ \A k \in DOMAIN emailCache : k \in DOMAIN emailCache' /\ emailCache'[k] = emailCache[k]
    /\ \A k \in DOMAIN emailCache' \ DOMAIN emailCache :
          \E f \in Formats :
             /\ k = cacheKey(f, last'.arg, effectiveLayout(last'.layout, defaultLayout))
             /\ getEmailTemplateNoCache(EmptyTmpl, baseTemplates, sources, last'.arg,
                                        effectiveLayout(last'.layout, defaultLayout), f).err = "none"

\* C37: a getEmailTemplate that fails adds no entry to the cache and changes
\* or removes none; a failure is never stored, so a later resolve of the
\* same triple reads the sources again.
C37_FailedResolveKeepsCache ==
  /\ []C37_FailuresNotCached
  /\ [][C37_RenderKeepsEntries]_vars

\* A render has returned one of whose formats did not resolve: every source
\* was read for it, its key is not in the cache, and the cache holds the
\* entries it held.
C37_Witness ==
  /\ last.op = "RenderEmail"
  /\ emailCache # EmptyTmpl
  /\ \E f \in Formats :
        /\ cacheKey(f, last.arg, effectiveLayout(last.layout, defaultLayout)) \notin DOMAIN emailCache
        /\ \A i \in 1..Len(sources) : \E j \in 1..Len(last.reads) : last.reads[j] = <<f, i>>

\* The files of a rebuild in the order claimed, as pairs <<directory, file>>:
\* source after source in registration order, and within a source the
\* layouts, then the components, then the partials.
RECURSIVE WalkOrder(_)
WalkOrder(srcs) ==
  IF srcs = <<>> THEN <<>>
  ELSE LET s == srcs[Len(srcs)]
           of(dir) == [j \in 1..Len(WalkDir(s, dir)) |-> <<dir, WalkDir(s, dir)[j]>>]
       IN WalkOrder(SubSeq(srcs, 1, Len(srcs) - 1))
            \o of(LayoutsDir) \o of(ComponentsDir) \o of(PartialsDir)

\* The files of the list parsed one after the other into the two sets of
\* st, up to the first that does not parse.
RECURSIVE ParseInOrder(_, _)
ParseInOrder(st, list) ==
  IF list = <<>> THEN st
  ELSE LET dir == list[1][1]
           f == list[1][2]
           format == formatFromFile(f.ext)
       IN IF format = "" THEN ParseInOrder(st, Tail(list))
          ELSE IF ~Parses(st.base[format], f.content) THEN [st EXCEPT !.err = "parse"]
          ELSE ParseInOrder(
                 [st EXCEPT !.base[format] =
                    ParseTemplate(@, templateName(dir, f), f.content)],
                 Tail(list))

\* Two fresh empty sets with the manager's functions.
FreshSets ==
  [base |-> (FormatText :> NewTemplateSet("text-base", funcMap))
            @@ (FormatHTML :> NewTemplateSet("html-base", funcMap)),
   err |-> "none"]

\* C38: a rebuild starts from two fresh empty sets and parses the files
\* source after source in registration order, within a source the layouts,
\* then the components, then the partials, every file of a source before any
\* file of the next: after NewManager and after every AddSource the base
\* sets are what parsing the files in that order gives, up to the first
\* file that fails.
C38_RebuildWalkOrder ==
  last.op \in {"NewManager", "AddSource"} =>
    \E r \in {ParseInOrder(FreshSets, WalkOrder(sources))} :
       /\ baseTemplates = r.base
       /\ last.op = "AddSource" => last.err = r.err

\* A rebuild has walked a registry in which two different sources hold
\* layouts and components.
C38_Witness ==
  /\ last.op = "AddSource"
  /\ Len(sources) >= 3
  /\ \E i \in 1..Len(sources) : \E j \in 1..Len(sources) :
        /\ i < j
        /\ HasDir(sources[i], LayoutsDir) /\ HasDir(sources[i], ComponentsDir)
        /\ HasDir(sources[j], LayoutsDir) /\ HasDir(sources[j], ComponentsDir)
        /\ sources[i] # sources[j]

\* C39 (as claimed): the built-in source is the first entry of the
\* registry, and after mailpen.New(provider, config) has returned an
\* instance the registry holds the built-in source and then every source of
\* config.Sources once, in the order of the configuration.
C39_RegistryAfterNew ==
  last.mp =>
    /\ sources[1] = BuiltinSource
    /\ sources = <<BuiltinSource>> \o last.config.Sources

\* What the registry holds after New: the built-in source first, then the
\* configured sources twice over.
C39_RegistryTwice ==
  last.mp =>
    /\ sources[1] = BuiltinSource
    /\ sources = <<BuiltinSource>> \o last.config.Sources \o last.config.Sources

\* C40 (as claimed): whatever RetryCount the configuration holds, a
\* sendWithRetry that has returned has called DialAndSend at least once,
\* and it returned an error only after an attempt that failed.
C40_AtLeastOneAttempt ==
  (last.op = "sendWithRetry" /\ last.at = "returned") =>
    /\ Len(Dials) >= 1
    /\ last.err # "none" =>
         (last.cause # "nil" /\ Dials[Len(Dials)].result = last.cause)

\* The same for the configurations whose RetryCount is not negative.
C40_AttemptWhenNotNegative ==
  (last.op = "sendWithRetry" /\ last.at = "returned" /\ last.RetryCount >= 1) =>
    /\ Len(Dials) >= 1
    /\ last.err # "none" =>
         (last.cause # "nil" /\ Dials[Len(Dials)].result = last.cause)

====
